---- MODULE Spec2Model ----
(***************************************************************************)
(* Model of the amount-in-words line of an invoice document                *)
(* (src/app/app.py): the total printed by _format_currency /               *)
(* _format_currency_plain and the phrase built by _number_to_words_pl for  *)
(* the same gross amount.                                                  *)
(*                                                                         *)
(* Strings are modelled character by character.  The Polish letters of the *)
(* word tables are written without diacritics (zloty, zlote, zlotych,     *)
(* tysiac / tysiace / tysiecy, ...); the transliteration keeps all table   *)
(* entries pairwise distinct.                                              *)
(*                                                                         *)
(* A Decimal is a sign-and-magnitude record, as decimal.Decimal is:        *)
(*   an amount      [neg, whole, milli]   |x| = whole + milli / 1000       *)
(*   a quantized    [neg, whole, cents]   |x| = whole + cents / 100        *)
(* Python integers and Decimals are unbounded; a whole part is kept in two *)
(* limbs [hi, lo] standing for hi * 10^9 + lo with lo < 10^9.              *)
(***************************************************************************)
EXTENDS Integers, Sequences, FiniteSets, TLC

VARIABLES
    document_type,  \* invoice.document_type: which renderer draws the page
    amount,         \* invoice.gross_amount handed to both functions
    pc,             \* position inside the renderer / the converter
    printed,        \* text of the total cell of the document
    value,          \* _number_to_words_pl: value after quantize
    zloty,          \* _number_to_words_pl: int(value)
    grosze,         \* _number_to_words_pl: int((value * 100) % 100)
    tmp,            \* _number_to_words_pl: loop variable of the decomposition
    groups,         \* _number_to_words_pl: base-1000 groups, least significant first
    idx,            \* _number_to_words_pl: enumerate() position, 0-based
    parts,          \* _number_to_words_pl: rendered groups, most significant first
    words,          \* _number_to_words_pl: the whole-amount clause
    result,         \* the returned phrase
    call_no,        \* 1 for the conversion of the amount as given, 2 for the
                    \* conversion of the same amount already quantized
    first_result,   \* the phrase returned by call 1
    fn_call,        \* a single application of _declension / _group_to_words
    month_call,     \* a single application of _aggregate_monthly_sales
    invoices,       \* rows of the invoices table, in insertion order
    ndg_documents,  \* rows of the ndg_documents table, in insertion order
    ndg_attachments, \* rows of the ndg_attachments table, in insertion order
    service_templates, \* rows of the service_templates table
    response,       \* what the last request handler answered
    run,            \* history: the current run of auto-numbered submissions
    commits,        \* history: how many requests have changed the tables
    requests        \* new_invoice requests in flight, when they interleave

\* the variables of the document renderer and the converter
wordsVars == <<document_type, amount, pc, printed, value, zloty, grosze, tmp,
               groups, idx, parts, words, result, call_no, first_result>>

\* the variables of the single function applications
fnVars == <<fn_call, month_call>>

\* the tables and the last answer
storeVars == <<invoices, ndg_documents, ndg_attachments, service_templates,
               response, run, commits>>

\* the requests in flight
raceVars == <<requests>>

vars == <<wordsVars, fnVars, storeVars, raceVars>>

----------------------------------------------------------------------------
(* Bounds of the explored inputs *)

\* number of base-1000 groups an input amount may have
MaxGroups == 5

\* the largest number handed to _declension on its own
MaxNumber == 1199

----------------------------------------------------------------------------
(* Unbounded non-negative integers in two limbs *)

BigZero == [hi |-> 0, lo |-> 0]

BigIsZero(b) == b.hi = 0 /\ b.lo = 0

\* b % 1000
BigMod1000(b) == b.lo % 1000

\* b // 1000
BigFloorDiv1000(b) ==
    [hi |-> b.hi \div 1000,
     lo |-> (b.hi % 1000) * 1000000 + (b.lo \div 1000)]

\* b + 1
BigSucc(b) ==
    IF b.lo + 1 = 1000000000
    THEN [hi |-> b.hi + 1, lo |-> 0]
    ELSE [hi |-> b.hi, lo |-> b.lo + 1]

\* b * 1000 + g, for a group g in 0..999
BigPush(b, g) ==
    [hi |-> b.hi * 1000 + (b.lo \div 1000000),
     lo |-> (b.lo % 1000000) * 1000 + g]

\* base-1000 digits of b, most significant first (empty for 0)
RECURSIVE BigGroups(_)
BigGroups(b) ==
    IF BigIsZero(b) THEN <<>>
    ELSE Append(BigGroups(BigFloorDiv1000(b)), BigMod1000(b))

----------------------------------------------------------------------------
(* Text primitives of the Python runtime *)

\* the i-th character of s, 1-based
CharAt(s, i) == SubSeq(s, i, i)

\* str(n) for an int n >= 0
RECURSIVE NatToStr(_)
NatToStr(n) ==
    IF n < 10 THEN CharAt("0123456789", n + 1)
    ELSE NatToStr(n \div 10) \o CharAt("0123456789", (n % 10) + 1)

\* str.lstrip() / str.rstrip() / str.strip() over spaces
RECURSIVE LStrip(_)
LStrip(s) ==
    IF Len(s) > 0 /\ CharAt(s, 1) = " " THEN LStrip(SubSeq(s, 2, Len(s))) ELSE s

RECURSIVE RStrip(_)
RStrip(s) ==
    IF Len(s) > 0 /\ CharAt(s, Len(s)) = " "
    THEN RStrip(SubSeq(s, 1, Len(s) - 1)) ELSE s

Strip(s) == RStrip(LStrip(s))

\* sep.join(seq)
RECURSIVE Join(_, _)
Join(sep, seq) ==
    IF Len(seq) = 0 THEN ""
    ELSE IF Len(seq) = 1 THEN seq[1]
    ELSE seq[1] \o sep \o Join(sep, Tail(seq))

\* s.replace(old, new) for a one-character old
RECURSIVE Replace(_, _, _)
Replace(s, old, new) ==
    IF Len(s) = 0 THEN ""
    ELSE (IF CharAt(s, 1) = old THEN new ELSE CharAt(s, 1))
         \o Replace(SubSeq(s, 2, Len(s)), old, new)

\* f"{n}" in place of f"{n:02d}": no padding
Format02dUnpadded(n) ==
    IF n < 0 THEN "-" \o NatToStr(-n) ELSE NatToStr(n)

\* f"{n:02d}" for an int n: sign, then digits zero-padded to a total width of 2
Format02d(n) ==
    IF n < 0 THEN "-" \o NatToStr(-n)
    ELSE IF n < 10 THEN "0" \o NatToStr(n)
    ELSE NatToStr(n)

\* a three-digit group of the "," thousands grouping
Pad3(g) ==
    IF g < 10 THEN "00" \o NatToStr(g)
    ELSE IF g < 100 THEN "0" \o NatToStr(g)
    ELSE NatToStr(g)

----------------------------------------------------------------------------
(* Decimal arithmetic *)

\* variant: ROUND_HALF_EVEN in place of ROUND_HALF_UP
QuantizeHalfEven(d) ==
    LET c  == d.milli \div 10
        r  == d.milli % 10
        c2 == IF r > 5 \/ (r = 5 /\ c % 2 = 1) THEN c + 1 ELSE c
    IN  IF c2 = 100
        THEN [neg |-> d.neg, whole |-> BigSucc(d.whole), cents |-> 0]
        ELSE [neg |-> d.neg, whole |-> d.whole, cents |-> c2]

\* Decimal.quantize(Decimal("0.01"), rounding=ROUND_HALF_UP): nearest cent,
\* ties away from zero; the sign is kept, also on a zero result
QuantizeHalfUp(d) ==
    LET c  == d.milli \div 10
        c2 == IF d.milli % 10 >= 5 THEN c + 1 ELSE c
    IN  IF c2 = 100
        THEN [neg |-> d.neg, whole |-> BigSucc(d.whole), cents |-> 0]
        ELSE [neg |-> d.neg, whole |-> d.whole, cents |-> c2]

\* int(value): truncation toward zero; an int has no negative zero
DecimalToInt(q) ==
    [neg |-> q.neg /\ ~BigIsZero(q.whole), mag |-> q.whole]

\* int((value * 100) % 100): Decimal "%" takes the sign of the dividend
SubunitsOf(q) == IF q.neg THEN -q.cents ELSE q.cents

\* f"{value:,.2f}" for a quantized Decimal
FormatCommaDot(q) ==
    LET gs == BigGroups(q.whole)
        int_text ==
            IF Len(gs) = 0 THEN "0"
            ELSE Join(",", [i \in 1..Len(gs) |->
                              IF i = 1 THEN NatToStr(gs[i]) ELSE Pad3(gs[i])])
    IN  (IF q.neg THEN "-" ELSE "") \o int_text \o "." \o
        (IF q.cents < 10 THEN "0" ELSE "") \o NatToStr(q.cents)

\* Decimal.quantize(...) as _normalize_decimal applies it to a Decimal argument
_normalize_decimal(d) == QuantizeHalfUp(d)

\* thousands separated by a space, decimal comma
_format_currency_plain(d) ==
    LET amt == _normalize_decimal(d)
    IN  Replace(Replace(FormatCommaDot(amt), ",", " "), ".", ",")

\* the definition of _format_currency in force after module load (the last one)
_format_currency(d) ==
    LET q == QuantizeHalfUp(d)
        formatted == Replace(Replace(FormatCommaDot(q), ",", " "), ".", ",")
    IN  formatted \o " zl"

----------------------------------------------------------------------------
(* Word tables; a Python list t is the sequence with t[i] at position i + 1 *)

\* _UNITS[1]
_UNITS == <<"", "jeden", "dwa", "trzy", "cztery", "piec", "szesc", "siedem",
            "osiem", "dziewiec">>

_TEENS == <<"dziesiec", "jedenascie", "dwanascie", "trzynascie", "czternascie",
            "pietnascie", "szesnascie", "siedemnascie", "osiemnascie",
            "dziewietnascie">>

_TENS == <<"", "", "dwadziescia", "trzydziesci", "czterdziesci",
           "piecdziesiat", "szescdziesiat", "siedemdziesiat",
           "osiemdziesiat", "dziewiecdziesiat">>

_HUNDREDS == <<"", "sto", "dwiescie", "trzysta", "czterysta", "piecset",
               "szescset", "siedemset", "osiemset", "dziewiecset">>

_GROUPS == << <<"zloty", "zlote", "zlotych">>,
              <<"tysiac", "tysiace", "tysiecy">>,
              <<"milion", "miliony", "milionow">>,
              <<"miliard", "miliardy", "miliardow">> >>

_GROSZ_FORMS == <<"grosz", "grosze", "groszy">>

----------------------------------------------------------------------------
(* The converter's helpers *)

\* variant: the 12..14 exception is forgotten
DeclensionNoTeens(number, forms) ==
    IF number = 1 THEN forms[1]
    ELSE IF 2 <= number % 10 /\ number % 10 <= 4 THEN forms[2]
    ELSE forms[3]

\* variant: the singular is chosen by the last digit (21 -> singular)
DeclensionOneByLastDigit(number, forms) ==
    IF number % 10 = 1 /\ number % 100 # 11 THEN forms[1]
    ELSE IF (2 <= number % 10 /\ number % 10 <= 4)
            /\ ~(12 <= number % 100 /\ number % 100 <= 14)
         THEN forms[2]
         ELSE forms[3]

_declension(number, forms) ==
    IF number = 1 THEN forms[1]
    ELSE IF (2 <= number % 10 /\ number % 10 <= 4)
            /\ ~(12 <= number % 100 /\ number % 100 <= 14)
         THEN forms[2]
         ELSE forms[3]

\* variant: "jeden" is hidden whenever tens_units is 1, hundreds or not
GroupToWordsHideAfterHundreds(group, hide_one) ==
    IF group = 0 THEN ""
    ELSE
      LET hundreds   == group \div 100
          tens_units == group % 100
          tens       == tens_units \div 10
          units      == tens_units % 10
          w1 == IF hundreds # 0 THEN <<_HUNDREDS[hundreds + 1]>> ELSE <<>>
          w2 == IF tens_units = 0 THEN <<>>
                ELSE IF tens_units < 10
                     THEN (IF tens_units = 1 /\ hide_one
                           THEN <<>>
                           ELSE <<_UNITS[units + 1]>>)
                ELSE IF tens_units < 20
                     THEN <<_TEENS[tens_units - 10 + 1]>>
                ELSE <<_TENS[tens + 1]>> \o
                     (IF units # 0 THEN <<_UNITS[units + 1]>> ELSE <<>>)
      IN  Strip(Join(" ", w1 \o w2))

\* variant: the teens start at 11, so 10 is looked up among the units
GroupToWordsTenAsUnit(group, hide_one) ==
    IF group = 0 THEN ""
    ELSE
      LET hundreds   == group \div 100
          tens_units == group % 100
          tens       == tens_units \div 10
          units      == tens_units % 10
          w1 == IF hundreds # 0 THEN <<_HUNDREDS[hundreds + 1]>> ELSE <<>>
          w2 == IF tens_units = 0 THEN <<>>
                ELSE IF tens_units <= 10
                     THEN (IF tens_units = 1 /\ hide_one /\ hundreds = 0
                           THEN <<>>
                           ELSE <<_UNITS[units + 1]>>)
                ELSE IF tens_units < 20
                     THEN <<_TEENS[tens_units - 10 + 1]>>
                ELSE <<_TENS[tens + 1]>> \o
                     (IF units # 0 THEN <<_UNITS[units + 1]>> ELSE <<>>)
      IN  Strip(Join(" ", w1 \o w2))

_group_to_words(group, hide_one) ==
    IF group = 0 THEN ""
    ELSE
      LET hundreds   == group \div 100
          tens_units == group % 100
          tens       == tens_units \div 10
          units      == tens_units % 10
          w1 == IF hundreds # 0 THEN <<_HUNDREDS[hundreds + 1]>> ELSE <<>>
          w2 == IF tens_units = 0 THEN <<>>
                ELSE IF tens_units < 10
                     THEN (IF tens_units = 1 /\ hide_one /\ hundreds = 0
                           THEN <<>>
                           ELSE <<_UNITS[units + 1]>>)
                ELSE IF tens_units < 20
                     THEN <<_TEENS[tens_units - 10 + 1]>>
                ELSE <<_TENS[tens + 1]>> \o
                     (IF units # 0 THEN <<_UNITS[units + 1]>> ELSE <<>>)
      IN  Strip(Join(" ", w1 \o w2))

\* variant: parts.append(part)
InsertLast(seq, part) == seq \o <<part>>

\* parts.insert(0, part)
InsertFirst(seq, part) == <<part>> \o seq

\* variant: the zero amount with the singular noun
ZeroWordsSingular == "zero zloty"

\* the whole-amount clause of an amount whose int part is 0
ZeroWords == "zero zlotych"

\* tmp > 0 for a Python int
IntIsPositive(z) == ~z.neg /\ ~BigIsZero(z.mag)

\* zloty == 0
IntIsZero(z) == BigIsZero(z.mag)

----------------------------------------------------------------------------
(* Input amounts *)

\* values taken by the group of magnitude index i of an input amount: 0, the
\* singular, few and many cases of the declension, and values read with
\* "jeden"
GroupSamples(i) ==
    IF i = 0 THEN {0, 1, 2, 5, 10, 12, 21, 22, 101, 567, 999}
    ELSE IF i = 1 THEN {0, 1, 2, 5, 12, 21, 101, 234}
    ELSE IF i = 2 THEN {0, 1, 2, 5, 12, 101}
    ELSE {0, 1, 2, 5, 21, 101}

\* h * 10^9 + the three groups t (most significant first)
WithLowGroups(h, t) == BigPush(BigPush(BigPush(h, t[1]), t[2]), t[3])

\* whole parts below 10^9: every combination of the samples
LowWholes ==
    {WithLowGroups(BigZero, <<g2, g1, g0>>) :
        g2 \in GroupSamples(2), g1 \in GroupSamples(1), g0 \in GroupSamples(0)}

\* the groups of magnitude index k .. MaxGroups - 1, as a number
RECURSIVE HighPartsFrom(_)
HighPartsFrom(k) ==
    IF k >= MaxGroups THEN {BigZero}
    ELSE {BigPush(h, g) : h \in HighPartsFrom(k + 1), g \in GroupSamples(k)}

\* whole parts of 10^9 and more: every combination of the high groups over a
\* few low parts
HighWholes ==
    {WithLowGroups(h, t) :
        h \in HighPartsFrom(3) \ {BigZero},
        t \in {<<0, 0, 0>>, <<0, 0, 1>>, <<0, 0, 2>>, <<0, 1, 0>>,
               <<1, 0, 0>>, <<1, 234, 567>>}}

\* thousandths of the fractional part: exact cents, ties, values next to a
\* tie, a carry into the whole part
MilliSamples == {0, 4, 5, 10, 50, 120, 220, 890, 994, 995}

\* whole parts combined with every fractional sample
FractionWholes ==
    {WithLowGroups(BigZero, t) :
        t \in {<<0, 0, 0>>, <<0, 0, 1>>, <<0, 0, 10>>, <<0, 0, 999>>,
               <<0, 1, 0>>, <<0, 999, 999>>, <<2, 2, 22>>}}

NonNegativeAmounts ==
    {[neg |-> FALSE, whole |-> w, milli |-> m] :
        w \in LowWholes \cup HighWholes, m \in {0, 890}}
    \cup
    {[neg |-> FALSE, whole |-> w, milli |-> m] :
        w \in FractionWholes, m \in MilliSamples}

\* amounts below zero (a zero magnitude is left out)
NegativeAmounts ==
    {[neg |-> TRUE, whole |-> WithLowGroups(BigZero, <<0, g1, g0>>), milli |-> m] :
        g1 \in {0, 1}, g0 \in {0, 5, 10}, m \in MilliSamples}
    \ {[neg |-> TRUE, whole |-> BigZero, milli |-> 0]}

Amounts == NonNegativeAmounts \cup NegativeAmounts

----------------------------------------------------------------------------
(* The state machine: one document is rendered *)

QuantizedZero == [neg |-> FALSE, whole |-> BigZero, cents |-> 0]

IntZero == [neg |-> FALSE, mag |-> BigZero]

\* no function has been applied on its own
NoCall == [fn |-> "none", n |-> 0, hide_one |-> FALSE, forms |-> <<>>,
           out |-> ""]

\* _aggregate_monthly_sales is not being applied on its own
NoMonthCall == [state |-> "none", reference |-> [year |-> 0, month |-> 0, day |-> 0],
                months_back |-> 0, month_bounds |-> <<>>, totals |-> <<>>]

\* no request has been answered
NoResponse == [handler |-> "none", stored |-> FALSE, number |-> "",
               usage |-> 0, remaining |-> 0, words_arg |-> 0,
               asked_type |-> "", asked_year |-> 0, asked_month |-> 0,
               usage_percent |-> [num |-> 0, den |-> 1],
               scope |-> [given |-> FALSE, text |-> ""]]

\* no run of auto-numbered submissions is being followed
NoRun == [active |-> FALSE, document_type |-> "", year |-> 0, month |-> 0,
          k |-> 0]

\* no request is in flight
NoRequests == <<>>

\* the tables as db.create_all() leaves them, and nothing in flight
StoreIdle ==
    /\ invoices = <<>>
    /\ ndg_documents = <<>>
    /\ ndg_attachments = <<>>
    /\ service_templates = <<>>
    /\ response = NoResponse
    /\ run = NoRun
    /\ commits = 0
    /\ requests = NoRequests

Init ==
    /\ document_type \in {"faktura", "paragon"}
    /\ amount \in Amounts
    /\ pc = "total"
    /\ printed = ""
    /\ value = QuantizedZero
    /\ zloty = IntZero
    /\ grosze = 0
    /\ tmp = IntZero
    /\ groups = <<>>
    /\ idx = 0
    /\ parts = <<>>
    /\ words = ""
    /\ result = ""
    /\ call_no = 1
    /\ first_result = ""
    /\ fn_call = NoCall
    /\ month_call = NoMonthCall
    /\ StoreIdle

\* _invoice_pdf_bytes picks the renderer; the renderer prints the total cell
RenderTotal ==
    /\ pc = "total"
    /\ printed' = IF document_type = "paragon"
                  THEN _format_currency_plain(amount)
                  ELSE _format_currency(amount)
    /\ pc' = "call"
    /\ UNCHANGED <<document_type, amount, value, zloty, grosze, tmp, groups,
                   idx, parts, words, result,
                   call_no, first_result, fnVars, storeVars, raceVars>>

\* _number_to_words_pl: quantize and split
Words_Split ==
    /\ pc = "call"
    /\ LET q == QuantizeHalfUp(amount)
       IN  /\ value' = q
           /\ zloty' = DecimalToInt(q)
           /\ grosze' = SubunitsOf(q)
    /\ pc' = "branch"
    /\ UNCHANGED <<document_type, amount, printed, tmp, groups, idx, parts,
                   words, result,
                   call_no, first_result, fnVars, storeVars, raceVars>>

\* _number_to_words_pl: if zloty == 0
Words_Zero ==
    /\ pc = "branch"
    /\ IntIsZero(zloty)
    /\ words' = ZeroWords
    /\ pc' = "subunit"
    /\ UNCHANGED <<document_type, amount, printed, value, zloty, grosze, tmp,
                   groups, idx, parts, result,
                   call_no, first_result, fnVars, storeVars, raceVars>>

\* the else branch without  parts = []: the list of an earlier call is kept
Words_BeginKeepsParts ==
    /\ pc = "branch"
    /\ ~IntIsZero(zloty)
    /\ groups' = <<>>
    /\ tmp' = zloty
    /\ idx' = 0
    /\ pc' = "loops"
    /\ UNCHANGED <<document_type, amount, printed, value, zloty, grosze,
                   parts, words, result,
                   call_no, first_result, fnVars, storeVars, raceVars>>

\* _number_to_words_pl: else branch, before the loops
Words_Begin ==
    /\ pc = "branch"
    /\ ~IntIsZero(zloty)
    /\ parts' = <<>>
    /\ groups' = <<>>
    /\ tmp' = zloty
    /\ idx' = 0
    /\ pc' = "loops"
    /\ UNCHANGED <<document_type, amount, printed, value, zloty, grosze,
                   words, result,
                   call_no, first_result, fnVars, storeVars, raceVars>>

\* one pass of  while tmp > 0  that puts the new group in front of the list
Words_DecomposePrepends ==
    /\ pc = "loops"
    /\ IntIsPositive(tmp)
    /\ groups' = <<BigMod1000(tmp.mag)>> \o groups
    /\ tmp' = [neg |-> FALSE, mag |-> BigFloorDiv1000(tmp.mag)]
    /\ UNCHANGED <<document_type, amount, pc, printed, value, zloty, grosze,
                   idx, parts, words, result,
                   call_no, first_result, fnVars, storeVars, raceVars>>

\* _number_to_words_pl: one pass of  while tmp > 0
Words_Decompose ==
    /\ pc = "loops"
    /\ IntIsPositive(tmp)
    /\ groups' = Append(groups, BigMod1000(tmp.mag))
    /\ tmp' = [neg |-> FALSE, mag |-> BigFloorDiv1000(tmp.mag)]
    /\ UNCHANGED <<document_type, amount, pc, printed, value, zloty, grosze,
                   idx, parts, words, result,
                   call_no, first_result, fnVars, storeVars, raceVars>>

\* one pass of the rendering loop without  if group == 0: continue
Words_RenderKeepsZero ==
    /\ pc = "loops"
    /\ ~IntIsPositive(tmp)
    /\ idx < Len(groups)
    /\ LET group == groups[idx + 1]
           hide_one == idx > 0
           group_words == _group_to_words(group, hide_one)
           forms == IF idx < Len(_GROUPS) THEN _GROUPS[idx + 1]
                    ELSE _GROUPS[Len(_GROUPS)]
           part == Strip(group_words \o " " \o _declension(group, forms))
       IN  parts' = InsertFirst(parts, part)
    /\ idx' = idx + 1
    /\ UNCHANGED <<document_type, amount, pc, printed, value, zloty, grosze,
                   tmp, groups, words, result,
                   call_no, first_result, fnVars, storeVars, raceVars>>

\* _number_to_words_pl: one pass of  for idx, group in enumerate(groups)
Words_Render ==
    /\ pc = "loops"
    /\ ~IntIsPositive(tmp)
    /\ idx < Len(groups)
    /\ LET group == groups[idx + 1]
           hide_one == idx > 0
           group_words == _group_to_words(group, hide_one)
           forms == IF idx < Len(_GROUPS) THEN _GROUPS[idx + 1]
                    ELSE _GROUPS[Len(_GROUPS)]
           part == Strip(group_words \o " " \o _declension(group, forms))
       IN  parts' = IF group = 0 THEN parts ELSE InsertFirst(parts, part)
    /\ idx' = idx + 1
    /\ UNCHANGED <<document_type, amount, pc, printed, value, zloty, grosze,
                   tmp, groups, words, result,
                   call_no, first_result, fnVars, storeVars, raceVars>>

\* _number_to_words_pl: words = " ".join(parts).strip()
Words_Join ==
    /\ pc = "loops"
    /\ ~IntIsPositive(tmp)
    /\ idx >= Len(groups)
    /\ words' = Strip(Join(" ", parts))
    /\ pc' = "subunit"
    /\ UNCHANGED <<document_type, amount, printed, value, zloty, grosze, tmp,
                   groups, idx, parts, result,
                   call_no, first_result, fnVars, storeVars, raceVars>>

\* _number_to_words_pl: the subunit clause and the returned phrase
Words_Return ==
    /\ pc = "subunit"
    /\ LET grosze_part == Format02d(grosze) \o " "
                          \o _declension(grosze, _GROSZ_FORMS)
       IN  result' = Strip(words \o ", " \o grosze_part)
    /\ pc' = "done"
    /\ UNCHANGED <<document_type, amount, printed, value, zloty, grosze, tmp,
                   groups, idx, parts, words,
                   call_no, first_result, fnVars, storeVars, raceVars>>

\* A second conversion of the same amount: new_invoice quantizes the total
\* half-up before it stores it, and the pages drawn from the stored row
\* convert that quantized amount.  Call 2 is taken when quantizing changes the
\* amount, and starts with the converter's variables as call 1 left them.
QuantizeHalfUpStored(d) ==
    LET t == d.milli + 5
    IN  IF t >= 1000
        THEN [neg |-> d.neg, whole |-> BigSucc(d.whole), cents |-> 0]
        ELSE [neg |-> d.neg, whole |-> d.whole, cents |-> t \div 10]

StoredAmount(d) ==
    LET q == QuantizeHalfUpStored(d)
    IN  [neg |-> q.neg, whole |-> q.whole, milli |-> q.cents * 10]

Words_CallAgain ==
    /\ pc = "done"
    /\ call_no = 1
    /\ amount.milli % 10 # 0
    /\ first_result' = result
    /\ call_no' = 2
    /\ amount' = StoredAmount(amount)
    /\ pc' = "call"
    /\ UNCHANGED <<document_type, printed, value, zloty, grosze, tmp, groups,
                   idx, parts, words, result, fnVars, storeVars, raceVars>>

Next ==
    \/ RenderTotal
    \/ Words_Split
    \/ Words_Zero
    \/ Words_Begin
    \/ Words_Decompose
    \/ Words_Render
    \/ Words_Join
    \/ Words_Return
    \/ Words_CallAgain

Spec == Init /\ [][Next]_vars

TypeOK ==
    /\ pc \in {"idle", "total", "call", "branch", "loops", "subunit", "done"}
    /\ grosze \in -99..99
    /\ \A i \in 1..Len(groups) : groups[i] \in 0..999

----------------------------------------------------------------------------
(* The helpers applied on their own *)

\* the renderer and the converter at rest
WordsIdle ==
    /\ document_type = "paragon"
    /\ amount = [neg |-> FALSE, whole |-> BigZero, milli |-> 0]
    /\ pc = "idle"
    /\ printed = ""
    /\ value = QuantizedZero
    /\ zloty = IntZero
    /\ grosze = 0
    /\ tmp = IntZero
    /\ groups = <<>>
    /\ idx = 0
    /\ parts = <<>>
    /\ words = ""
    /\ result = ""
    /\ call_no = 1
    /\ first_result = ""

\* the noun families _declension is called with
FormFamilies == {_GROUPS[i] : i \in 1..Len(_GROUPS)} \cup {_GROSZ_FORMS}

FnInit ==
    /\ WordsIdle
    /\ StoreIdle
    /\ month_call = NoMonthCall
    /\ \E n \in 0..MaxNumber :
          fn_call = [fn |-> "pending", n |-> n, hide_one |-> FALSE,
                     forms |-> <<>>, out |-> ""]

\* _declension(number, forms)
ApplyDeclension ==
    /\ fn_call.fn = "pending"
    /\ \E forms \in FormFamilies :
          fn_call' = [fn |-> "_declension", n |-> fn_call.n,
                      hide_one |-> FALSE, forms |-> forms,
                      out |-> _declension(fn_call.n, forms)]
    /\ UNCHANGED <<month_call, wordsVars, storeVars, raceVars>>

\* _group_to_words(group, hide_one); its caller passes group = tmp % 1000
ApplyGroupToWords ==
    /\ fn_call.fn = "pending"
    /\ fn_call.n <= 999
    /\ \E hide_one \in BOOLEAN :
          fn_call' = [fn |-> "_group_to_words", n |-> fn_call.n,
                      hide_one |-> hide_one, forms |-> <<>>,
                      out |-> _group_to_words(fn_call.n, hide_one)]
    /\ UNCHANGED <<month_call, wordsVars, storeVars, raceVars>>

FnNext ==
    \/ ApplyDeclension
    \/ ApplyGroupToWords

FnSpec == FnInit /\ [][FnNext]_vars

----------------------------------------------------------------------------
(* Reading a printed text back *)

StartsWith(s, p) == Len(s) >= Len(p) /\ SubSeq(s, 1, Len(p)) = p

EndsWith(s, p) == Len(s) >= Len(p) /\ SubSeq(s, Len(s) - Len(p) + 1, Len(s)) = p

\* position of the first occurrence of sub in s, 0 when there is none
RECURSIVE FindFrom(_, _, _)
FindFrom(s, sub, i) ==
    IF i + Len(sub) - 1 > Len(s) THEN 0
    ELSE IF SubSeq(s, i, i + Len(sub) - 1) = sub THEN i
    ELSE FindFrom(s, sub, i + 1)

Find(s, sub) == FindFrom(s, sub, 1)

Contains(s, sub) == Find(s, sub) > 0

\* the text before / after the first occurrence of sep (sep occurs in s)
Before(s, sep) == SubSeq(s, 1, Find(s, sep) - 1)

After(s, sep) == SubSeq(s, Find(s, sep) + Len(sep), Len(s))

\* s.split(" "): the pieces between spaces, empty pieces kept
RECURSIVE SplitSpace(_)
SplitSpace(s) ==
    IF ~Contains(s, " ") THEN <<s>>
    ELSE <<Before(s, " ")>> \o SplitSpace(After(s, " "))

LastOf(seq) == seq[Len(seq)]

\* the two clauses of a returned phrase
WholeClause(r) == Before(r, ", ")

SubunitClause(r) == After(r, ", ")

\* the number printed in the subunit clause
SubunitNumber(r) == Before(SubunitClause(r), " ")

\* the whole part of b as decimal digits, without grouping
BigToStr(b) ==
    LET gs == BigGroups(b)
    IN  IF Len(gs) = 0 THEN "0"
        ELSE Join("", [i \in 1..Len(gs) |->
                         IF i = 1 THEN NatToStr(gs[i]) ELSE Pad3(gs[i])])

\* the non-negative whole number with the given groups, most significant first
RECURSIVE FromGroups(_)
FromGroups(gs) ==
    IF Len(gs) = 0 THEN BigZero
    ELSE BigPush(FromGroups(SubSeq(gs, 1, Len(gs) - 1)), gs[Len(gs)])

\* the non-negative amount  gs . milli
Amt(gs, m) == [neg |-> FALSE, whole |-> FromGroups(gs), milli |-> m]

\* the negative amount  -(gs . milli)
NegAmt(gs, m) == [neg |-> TRUE, whole |-> FromGroups(gs), milli |-> m]

Returned == pc = "done"

----------------------------------------------------------------------------
(* What the claims speak about, stated on the amount itself *)

\* the amount is below zero
IsNegative(d) == d.neg /\ (~BigIsZero(d.whole) \/ d.milli > 0)

\* the whole-unit part of the amount rounded half-up to cents is 0
WholeIsZero(d) == BigIsZero(d.whole) /\ d.milli < 995

\* the whole-unit part of the amount is at least 10^12
NeedsFifthGroup(d) == d.whole.hi >= 1000

\* n in 0..99 as two digits
TwoDigits(n) == IF n < 10 THEN "0" \o NatToStr(n) ELSE NatToStr(n)

\* the printed total without its currency suffix
PrintedNumber(p) == IF EndsWith(p, " zl") THEN SubSeq(p, 1, Len(p) - 3) ELSE p

\* the two digits after the decimal comma of the printed total
PrintedCents(p) == After(PrintedNumber(p), ",")

\* the digits before the decimal comma of the printed total
PrintedWholeDigits(p) ==
    LET w == Replace(Before(PrintedNumber(p), ","), " ", "")
    IN  IF StartsWith(w, "-") THEN SubSeq(w, 2, Len(w)) ELSE w

PrintedMinus(p) == StartsWith(p, "-")

CurrencyNouns == {"zloty", "zlote", "zlotych"}

----------------------------------------------------------------------------
(* Claims *)

\* C1: for every non-negative amount whose whole-unit part is at least 1 the
\* whole-amount clause of the returned phrase ends with a form of the
\* currency noun, also when the units group is 0; 1000.00 gives
\* "tysiac zlotych, 00 groszy".
C1_WholeClauseEndsWithCurrency ==
    (Returned /\ ~amount.neg /\ ~WholeIsZero(amount)) =>
        /\ LastOf(SplitSpace(WholeClause(result))) \in CurrencyNouns
        /\ (amount = Amt(<<1, 0>>, 0) => result = "tysiac zlotych, 00 groszy")

\* C2: for a negative amount the converter never returns a phrase.
C2_NegativeNeverReturns ==
    IsNegative(amount) => ~Returned

\* C3: for an amount whose whole-unit part is at least 10^12 the converter
\* never returns a phrase.
C3_FifthGroupNeverReturns ==
    NeedsFifthGroup(amount) => ~Returned

\* C4: the printed total and the returned phrase show the same whole-unit
\* integer and the same two subunit digits.
C4_PrintedAgreesWithPhrase ==
    Returned =>
        /\ PrintedWholeDigits(printed) = BigToStr(zloty.mag)
        /\ (PrintedMinus(printed) /\ ~BigIsZero(zloty.mag)) <=> zloty.neg
        /\ PrintedCents(printed) = SubunitNumber(result)

\* the magnitude of a tie amount, rounded away from zero
TieCents(d) == ((d.milli \div 10) + 1) % 100

TieWhole(d) == IF (d.milli \div 10) + 1 = 100 THEN BigSucc(d.whole) ELSE d.whole

\* C5: an amount exactly halfway between two cents is rounded to the cent of
\* larger magnitude, by the converter and by both printing functions;
\* 10.005 gives 10.01 and 0.005 gives 0.01.
C5_TiesRoundHalfUp ==
    (Returned /\ amount.milli % 10 = 5) =>
        /\ value = [neg |-> amount.neg, whole |-> TieWhole(amount),
                    cents |-> TieCents(amount)]
        /\ PrintedCents(printed) = TwoDigits(TieCents(amount))
        /\ PrintedWholeDigits(printed) = BigToStr(TieWhole(amount))
        /\ PrintedMinus(printed) = amount.neg
        /\ (amount = Amt(<<10>>, 5) =>
              /\ PrintedNumber(printed) = "10,01"
              /\ result = "dziesiec zlotych, 01 grosz")
        /\ (amount = Amt(<<0>>, 5) =>
              /\ PrintedNumber(printed) = "0,01"
              /\ result = "zero zlotych, 01 grosz")

C5_Witness ==
    /\ Returned
    /\ amount = Amt(<<10>>, 5)
    /\ document_type = "paragon"
    /\ printed = "10,01"
    /\ value.cents = 1

\* round_half_up(|amount| * 100) mod 100
RoundedCents(d) == ((d.milli + 5) \div 10) % 100

\* C6: the number in the subunit clause is two digits, equal to
\* round_half_up(amount * 100) mod 100 (for an amount below zero either the
\* mathematical residue or the residue of the magnitude is accepted).
C6_SubunitDigitsMatchRounding ==
    Returned =>
        \/ SubunitNumber(result) = TwoDigits(RoundedCents(amount))
        \/ /\ amount.neg
           /\ SubunitNumber(result) = TwoDigits((100 - RoundedCents(amount)) % 100)

\* the declension rule: singular for 1, few for 2..4 outside 12..14, else many
ExpectedForm(n, forms) ==
    IF n = 1 THEN forms[1]
    ELSE IF (n % 10) \in 2..4 /\ (n % 100) \notin 12..14 THEN forms[2]
    ELSE forms[3]

\* the noun family of a magnitude index in 0..3
ExpectedFamily(i) ==
    CASE i = 0 -> <<"zloty", "zlote", "zlotych">>
      [] i = 1 -> <<"tysiac", "tysiace", "tysiecy">>
      [] i = 2 -> <<"milion", "miliony", "milionow">>
      [] i = 3 -> <<"miliard", "miliardy", "miliardow">>

\* magnitude indices of the non-zero groups among gs[1..i], largest first
RECURSIVE NonZeroDescending(_, _)
NonZeroDescending(gs, i) ==
    IF i = 0 THEN <<>>
    ELSE (IF gs[i] # 0 THEN <<i - 1>> ELSE <<>>) \o NonZeroDescending(gs, i - 1)

NonZeroIdx == NonZeroDescending(groups, Len(groups))

\* C7: the noun of each non-zero group is the form the declension rule
\* selects for that group's own value in the family of its magnitude index
\* (0..3), the grosz noun is the form selected for the subunit value; 22.00
\* ends in "zlote", 12.00 in "zlotych", 1.00 gives "jeden zloty, 00 groszy".
C7_NounsFollowDeclension ==
    Returned =>
        /\ Len(parts) = Len(NonZeroIdx)
        /\ \A k \in 1..Len(parts) :
              NonZeroIdx[k] <= 3 =>
                  LastOf(SplitSpace(parts[k])) =
                      ExpectedForm(groups[NonZeroIdx[k] + 1],
                                   ExpectedFamily(NonZeroIdx[k]))
        /\ LastOf(SplitSpace(result)) =
              ExpectedForm(grosze, <<"grosz", "grosze", "groszy">>)
        /\ (amount = Amt(<<22>>, 0) => EndsWith(WholeClause(result), " zlote"))
        /\ (amount = Amt(<<12>>, 0) => EndsWith(WholeClause(result), " zlotych"))
        /\ (amount = Amt(<<1>>, 0) => result = "jeden zloty, 00 groszy")

C7_Witness ==
    /\ Returned
    /\ amount = Amt(<<2, 2, 22>>, 220)
    /\ result = "dwa miliony dwa tysiace dwadziescia dwa zlote, 22 grosze"

\* the part has "jeden" as a word of its own
SaysJeden(part) ==
    \E k \in 1..Len(SplitSpace(part)) : SplitSpace(part)[k] = "jeden"

\* the units digit of the group is read "jeden": 1, 21..91, 101, 121..191, ...
UnitsDigitIsOne(g) == g % 100 = 1 \/ (g % 100 > 20 /\ g % 10 = 1)

\* C8: "jeden" is left out of a group's words exactly when the group is 1 at a
\* magnitude index >= 1; it is spoken for the units group 1 and for 21, 101,
\* ... at every magnitude; 101000 gives "sto jeden tysiecy".
C8_JedenHiddenOnlyForBareOne ==
    Returned =>
        /\ \A k \in 1..Len(parts) :
              LET i == NonZeroIdx[k]
                  g == groups[i + 1]
              IN  SaysJeden(parts[k]) <=>
                      (UnitsDigitIsOne(g) /\ ~(g = 1 /\ i >= 1))
        /\ (amount = Amt(<<101, 0>>, 0) =>
              result = "sto jeden tysiecy, 00 groszy")
        /\ (amount = Amt(<<1>>, 0) => WholeClause(result) = "jeden zloty")

C8_Witness ==
    /\ Returned
    /\ amount = Amt(<<1, 101, 21>>, 0)
    /\ result = "milion sto jeden tysiecy dwadziescia jeden zlotych, 00 groszy"

\* s has no space at either end and no two spaces in a row
SingleSpaced(s) ==
    /\ ~StartsWith(s, " ")
    /\ ~EndsWith(s, " ")
    /\ ~Contains(s, "  ")

\* the forms a part of magnitude index i may end with (the 5th group and
\* beyond are given the last family by the code)
FamilyOfIndex(i) == ExpectedFamily(IF i <= 3 THEN i ELSE 3)

\* C9: the rendered groups stand in the whole-amount clause in strictly
\* descending magnitude order, separated by exactly one space, with no empty
\* entry, no doubled space and no space at either end; 1234567.89 gives
\* "milion dwiescie trzydziesci cztery tysiace piecset szescdziesiat siedem
\* zlotych, 89 groszy".
C9_GroupsDescendingSingleSpaced ==
    (Returned /\ ~IntIsZero(zloty)) =>
        /\ WholeClause(result) = Join(" ", parts)
        /\ SingleSpaced(WholeClause(result))
        /\ Len(parts) = Len(NonZeroIdx)
        /\ \A k \in 1..Len(parts) :
              /\ parts[k] # ""
              /\ SingleSpaced(parts[k])
              /\ \E f \in 1..3 :
                    LastOf(SplitSpace(parts[k])) = FamilyOfIndex(NonZeroIdx[k])[f]
        /\ (amount = Amt(<<1, 234, 567>>, 890) =>
              result = "milion dwiescie trzydziesci cztery tysiace piecset szescdziesiat siedem zlotych, 89 groszy")

C9_Witness ==
    /\ Returned
    /\ amount = Amt(<<1, 234, 567>>, 890)
    /\ Len(parts) = 3
    /\ parts[1] = "milion"

\* C10: for a non-negative amount whose whole-unit part after half-up
\* rounding is 0 the whole-amount clause is exactly "zero zlotych"; 0.00
\* gives "zero zlotych, 00 groszy"; an amount that rounds up to 1.00 (0.995)
\* does not get the zero clause.
C10_ZeroClause ==
    (Returned /\ ~amount.neg) =>
        /\ WholeIsZero(amount) => WholeClause(result) = "zero zlotych"
        /\ ~WholeIsZero(amount) => WholeClause(result) # "zero zlotych"
        /\ (amount = Amt(<<0>>, 0) => result = "zero zlotych, 00 groszy")
        /\ (amount = Amt(<<0>>, 995) => result = "jeden zloty, 00 groszy")

C10_Witness ==
    /\ Returned
    /\ amount = Amt(<<0>>, 50)
    /\ result = "zero zlotych, 05 groszy"

\* the number of places where sub occurs in s
RECURSIVE Occurrences(_, _)
Occurrences(s, sub) ==
    IF ~Contains(s, sub) THEN 0
    ELSE 1 + Occurrences(After(s, sub), sub)

\* C11: for every non-negative amount the returned phrase is the whole
\* clause, then ", ", then the subunit value as exactly two zero-padded
\* digits, a space and the grosz noun in the form its value asks for; the
\* separator ", " occurs exactly once.
C11_PhraseShape ==
    (Returned /\ ~amount.neg) =>
        /\ Occurrences(result, ", ") = 1
        /\ WholeClause(result) = words
        /\ words # ""
        /\ Len(SubunitNumber(result)) = 2
        /\ SubunitClause(result) =
              TwoDigits(RoundedCents(amount)) \o " "
              \o ExpectedForm(RoundedCents(amount), _GROSZ_FORMS)
        /\ (amount = Amt(<<0, 0, 1>>, 50) => result = "jeden zloty, 05 groszy")

C11_Witness ==
    /\ Returned
    /\ call_no = 1
    /\ amount = Amt(<<0, 0, 1>>, 50)
    /\ result = "jeden zloty, 05 groszy"

\* C12: the phrase depends only on the half-up quantized value of the
\* input: the conversion of an amount x and the conversion of x quantized
\* half-up to 2 digits return identical phrases, and what call 1 left in
\* the converter's variables does not show in call 2.
C12_SamePhraseForQuantizedInput ==
    (Returned /\ call_no = 2) => result = first_result

C12_Witness ==
    /\ Returned
    /\ call_no = 2
    /\ amount = Amt(<<0, 0, 1>>, 0)
    /\ first_result = "jeden zloty, 00 groszy"
    /\ result = first_result

\* C19: _declension(n, (singular, few, many)) returns a form for every
\* n >= 0: the singular iff n = 1; the few form iff n # 1, n mod 10 is in
\* 2..4 and n mod 100 is not in 12..14; the many form in every other case,
\* among them n = 0, 11, 12..14, 21, 101 and 112.
C19_DeclensionRule ==
    fn_call.fn = "_declension" =>
        LET n == fn_call.n
            f == fn_call.forms
            few == n # 1 /\ (n % 10) \in 2..4 /\ (n % 100) \notin 12..14
        IN  /\ fn_call.out \in {f[1], f[2], f[3]}
            /\ (fn_call.out = f[1]) <=> (n = 1)
            /\ (fn_call.out = f[2]) <=> few
            /\ (fn_call.out = f[3]) <=> (n # 1 /\ ~few)
            /\ n \in {0, 11, 12, 13, 14, 21, 101, 112} => fn_call.out = f[3]

C19_Witness ==
    /\ fn_call.fn = "_declension"
    /\ fn_call.n = 112
    /\ fn_call.forms = _GROUPS[2]
    /\ fn_call.out = "tysiecy"

\* the words the claim lists for a group g, in order
GroupWordList(g) ==
    LET r == g % 100
    IN  (IF g \div 100 > 0 THEN <<_HUNDREDS[(g \div 100) + 1]>> ELSE <<>>)
        \o (IF r = 0 THEN <<>>
            ELSE IF r <= 9 THEN <<_UNITS[r + 1]>>
            ELSE IF r <= 19 THEN <<_TEENS[r - 9]>>
            ELSE IF r % 10 # 0 THEN <<_TENS[(r \div 10) + 1], _UNITS[(r % 10) + 1]>>
            ELSE <<_TENS[(r \div 10) + 1]>>)

\* C20: for every g in 1..999, _group_to_words(g, False) is the space-joined
\* sequence of the hundreds word if g div 100 > 0, then for r = g mod 100
\* nothing if r = 0, the unit word if r is in 1..9, the teen word if r is in
\* 10..19, otherwise the tens word followed by the unit word only when
\* r mod 10 # 0; no word is empty and no space is doubled.
C20_GroupWords ==
    (fn_call.fn = "_group_to_words" /\ ~fn_call.hide_one /\ fn_call.n \in 1..999) =>
        LET g == fn_call.n
            w == GroupWordList(g)
        IN  /\ fn_call.out = Join(" ", w)
            /\ Len(w) >= 1
            /\ \A k \in 1..Len(w) : w[k] # ""
            /\ SplitSpace(fn_call.out) = w
            /\ ~Contains(fn_call.out, "  ")
            /\ (g = 1 => fn_call.out = "jeden")
            /\ (g = 10 => fn_call.out = "dziesiec")
            /\ (g = 20 => fn_call.out = "dwadziescia")
            /\ (g = 100 => fn_call.out = "sto")
            /\ (g = 115 => fn_call.out = "sto pietnascie")
            /\ (g = 999 => fn_call.out = "dziewiecset dziewiecdziesiat dziewiec")

C20_Witness ==
    /\ fn_call.fn = "_group_to_words"
    /\ ~fn_call.hide_one
    /\ fn_call.n = 115
    /\ fn_call.out = "sto pietnascie"

\* the value  sum of gs[i+1] * 1000^i  of a list of groups, least significant
\* first
RECURSIVE GroupsValue(_)
GroupsValue(gs) ==
    IF Len(gs) = 0 THEN BigZero
    ELSE BigPush(GroupsValue(Tail(gs)), Head(gs))

\* the magnitude indexes of the zero groups whose noun family no non-zero
\* group shares
SilentIdx ==
    {i \in 1..(Len(groups) - 1) :
        /\ groups[i + 1] = 0
        /\ \A j \in 0..(Len(groups) - 1) :
              groups[j + 1] # 0 => FamilyOfIndex(j) # FamilyOfIndex(i)}

\* C21: a base-1000 group whose value is 0 contributes nothing to the phrase,
\* neither words nor its magnitude noun: the phrase has one part for each
\* non-zero group and no form of a zero group's noun; 1000000 has no form of
\* "tysiac", and in 1000001 the million and the unit groups are adjacent.
C21_ZeroGroupSilent ==
    (Returned /\ IntIsPositive(zloty)) =>
        /\ Len(parts) = Cardinality({i \in 1..Len(groups) : groups[i] # 0})
        /\ \A i \in SilentIdx : \A f \in 1..3 :
              ~Contains(result, FamilyOfIndex(i)[f])
        /\ (amount = Amt(<<1, 0, 0>>, 0) =>
              /\ ~Contains(result, "tysi")
              /\ parts = <<"milion">>)
        /\ (amount = Amt(<<1, 0, 1>>, 0) =>
              /\ StartsWith(result, "milion jeden zloty")
              /\ ~Contains(result, "tysi"))

C21_Witness ==
    /\ Returned
    /\ amount = Amt(<<1, 0, 1>>, 0)
    /\ groups = <<1, 0, 1>>
    /\ result = "milion jeden zloty, 00 groszy"

\* the decomposition loop of the running call has ended
DecompositionDone ==
    /\ IntIsPositive(zloty)
    /\ \/ pc \in {"subunit", "done"}
       \/ pc = "loops" /\ ~IntIsPositive(tmp)

\* C22: for every whole-unit amount w >= 1 the decomposition loop ends with
\* groups g_0..g_k, each in 0..999, the most significant g_k non-zero, and the
\* sum of g_i * 1000^i equal to w, the magnitude index of a group being its
\* position i; while the loop runs, the groups taken so far and the rest tmp
\* add up to w, and tmp has fewer base-1000 digits after every pass.
C22_DecompositionExact ==
    /\ DecompositionDone =>
          /\ Len(groups) >= 1
          /\ \A i \in 1..Len(groups) : groups[i] \in 0..999
          /\ groups[Len(groups)] # 0
          /\ GroupsValue(groups) = zloty.mag
          /\ BigIsZero(tmp.mag)
    /\ (pc = "loops" /\ IntIsPositive(zloty)) =>
          /\ GroupsValue(groups \o
                 [k \in 1..Len(BigGroups(tmp.mag)) |->
                     BigGroups(tmp.mag)[Len(BigGroups(tmp.mag)) + 1 - k]])
                = zloty.mag
          /\ Len(groups) + Len(BigGroups(tmp.mag)) = Len(BigGroups(zloty.mag))

C22_Witness ==
    /\ pc = "loops"
    /\ ~IntIsPositive(tmp)
    /\ idx = 0
    /\ amount = Amt(<<1, 234, 567>>, 890)
    /\ groups = <<567, 234, 1>>

----------------------------------------------------------------------------
(* The store: dates, money and document numbers *)

\* The tables keep every value exactly as the application wrote it.  Money
\* is counted in thousandths of a zloty, so that a value with a third
\* fractional digit can be told from its quantized value; quantities are
\* counted in thousandths too.

\* the most requests that change the tables in one behaviour
MaxCommits == 3

\* the largest months_back _aggregate_monthly_sales is applied with
MaxMonthsBack == 6

\* date(year, month, day)
Date(y, m, d) == [year |-> y, month |-> m, day |-> d]

\* a date field that is blank or does not parse
NoDate == Date(0, 0, 0)

\* a < b on dates
DateLt(a, b) ==
    \/ a.year < b.year
    \/ a.year = b.year /\ a.month < b.month
    \/ a.year = b.year /\ a.month = b.month /\ a.day < b.day

\* the shift without the step to and from a 0-based month
ShiftMonthOneBased(year, month, delta) ==
    LET i == (year * 12 + month) + delta
    IN  [year |-> i \div 12, month |-> i % 12]

_shift_month(year, month, delta) ==
    LET i == (year * 12 + (month - 1)) + delta
    IN  [year |-> i \div 12, month |-> (i % 12) + 1]

_month_bounds(reference, month_offset) ==
    LET target == _shift_month(reference.year, reference.month, month_offset)
        nxt    == _shift_month(target.year, target.month, 1)
    IN  [start |-> Date(target.year, target.month, 1),
         end   |-> Date(nxt.year, nxt.month, 1)]

\* issue_date >= start and issue_date < end
InBounds(d, bounds) == ~DateLt(d, bounds.start) /\ DateLt(d, bounds.end)

\* n / d rounded to the nearest integer, ties away from zero (d > 0)
RoundHalfUpDiv(n, d) ==
    IF n >= 0 THEN (2 * n + d) \div (2 * d)
    ELSE -((2 * (-n) + d) \div (2 * d))

\* quantize(Decimal("0.01")) that truncates: ROUND_DOWN in place of ROUND_HALF_UP
QuantizeMoneyDown(m) ==
    IF m >= 0 THEN (m \div 10) * 10 ELSE -(((-m) \div 10) * 10)

\* m.quantize(Decimal("0.01"), rounding=ROUND_HALF_UP), m in thousandths
QuantizeMoney(m) == RoundHalfUpDiv(m, 10) * 10

\* the text of a decimal field: blank, not a number, or a number
Blank == [kind |-> "blank", milli |-> 0]

NotANumber == [kind |-> "bad", milli |-> 0]

Num(m) == [kind |-> "num", milli |-> m]

\* Decimal(text) raises InvalidOperation
RaisesInvalidOperation(raw) == raw.kind = "bad"

\* _parse_decimal: a blank field is Decimal("0")
_parse_decimal(raw) == IF raw.kind = "num" THEN raw.milli ELSE 0

\* the value of one decimal digit, 10 for any other character
DigitOf(c) ==
    CASE c = "0" -> 0 [] c = "1" -> 1 [] c = "2" -> 2 [] c = "3" -> 3
      [] c = "4" -> 4 [] c = "5" -> 5 [] c = "6" -> 6 [] c = "7" -> 7
      [] c = "8" -> 8 [] c = "9" -> 9 [] OTHER -> 10

\* s is one or more decimal digits
RECURSIVE AllDigits(_)
AllDigits(s) ==
    IF Len(s) = 0 THEN FALSE
    ELSE IF Len(s) = 1 THEN DigitOf(s) < 10
    ELSE DigitOf(CharAt(s, 1)) < 10 /\ AllDigits(SubSeq(s, 2, Len(s)))

RECURSIVE DigitsValue(_)
DigitsValue(s) ==
    IF Len(s) = 0 THEN 0
    ELSE DigitsValue(SubSeq(s, 1, Len(s) - 1)) * 10 + DigitOf(CharAt(s, Len(s)))

\* int(text): surrounding blanks and one sign are accepted, then digits only;
\* ok is FALSE where int() raises ValueError (digit separators such as
\* "1_0" do not occur in the numbers explored)
PyInt(text) ==
    LET t    == Strip(text)
        sign == IF Len(t) > 0 /\ CharAt(t, 1) \in {"+", "-"} THEN CharAt(t, 1) ELSE ""
        body == IF sign = "" THEN t ELSE SubSeq(t, 2, Len(t))
    IN  IF AllDigits(body)
        THEN [ok |-> TRUE,
              value |-> IF sign = "-" THEN -DigitsValue(body) ELSE DigitsValue(body)]
        ELSE [ok |-> FALSE, value |-> 0]

\* number.split("/")[0]
FirstPart(number) == IF Contains(number, "/") THEN Before(number, "/") ELSE number

\* str(n) for an int n
IntToStr(n) == IF n < 0 THEN "-" \o NatToStr(-n) ELSE NatToStr(n)

\* one character of str.lower()
LowerChar(c) ==
    CASE c = "A" -> "a" [] c = "B" -> "b" [] c = "C" -> "c" [] c = "D" -> "d"
      [] c = "E" -> "e" [] c = "F" -> "f" [] c = "G" -> "g" [] c = "H" -> "h"
      [] c = "I" -> "i" [] c = "J" -> "j" [] c = "K" -> "k" [] c = "L" -> "l"
      [] c = "M" -> "m" [] c = "N" -> "n" [] c = "O" -> "o" [] c = "P" -> "p"
      [] c = "Q" -> "q" [] c = "R" -> "r" [] c = "S" -> "s" [] c = "T" -> "t"
      [] c = "U" -> "u" [] c = "V" -> "v" [] c = "W" -> "w" [] c = "X" -> "x"
      [] c = "Y" -> "y" [] c = "Z" -> "z"
      [] OTHER -> c

\* str.lower()
RECURSIVE Lower(_)
Lower(s) ==
    IF Len(s) = 0 THEN ""
    ELSE LowerChar(CharAt(s, 1)) \o Lower(SubSeq(s, 2, Len(s)))

\* the monthly ceiling, in thousandths
NDG_MONTHLY_LIMIT == 3499500

\* the rows of the chosen type issued in the month of issue_date
RowsOfMonth(rows, doc_type, issue_date) ==
    SelectSeq(rows, LAMBDA row :
        /\ row.document_type = doc_type
        /\ InBounds(row.issue_date, _month_bounds(issue_date, 0)))

\* the loop of _next_document_number over the selected numbers
RECURSIVE HighestPrefix(_, _)
HighestPrefix(rows, highest) ==
    IF rows = <<>> THEN highest
    ELSE LET number == Head(rows).number
             parsed == PyInt(FirstPart(number))
         IN  IF number = "" \/ ~parsed.ok
             THEN HighestPrefix(Tail(rows), highest)
             ELSE HighestPrefix(Tail(rows),
                                IF parsed.value > highest THEN parsed.value
                                ELSE highest)

\* variant: the document type is not filtered
NextNumberAnyType(rows, doc_type, issue_date) ==
    LET chosen == SelectSeq(rows, LAMBDA row :
                      InBounds(row.issue_date, _month_bounds(issue_date, 0)))
    IN  IntToStr(HighestPrefix(chosen, 0) + 1) \o "/"
        \o NatToStr(issue_date.month) \o "/" \o NatToStr(issue_date.year)

\* variant: the highest number is returned without the increment
NextNumberNoIncrement(rows, doc_type, issue_date) ==
    IntToStr(HighestPrefix(RowsOfMonth(rows, doc_type, issue_date), 0)) \o "/"
    \o NatToStr(issue_date.month) \o "/" \o NatToStr(issue_date.year)

\* _next_document_number, reading the invoices table as rows
_next_document_number(rows, doc_type, issue_date) ==
    LET highest     == HighestPrefix(RowsOfMonth(rows, doc_type, issue_date), 0)
        next_number == highest + 1
    IN  IntToStr(next_number) \o "/" \o NatToStr(issue_date.month) \o "/"
        \o NatToStr(issue_date.year)

\* one position of the form that _extract_items_from_form raises on
ItemRaises(f, tax_rate) ==
    /\ Strip(f.description) # ""
    /\ \/ RaisesInvalidOperation(f.quantity)
       \/ RaisesInvalidOperation(f.gross_price)
       \/ _parse_decimal(IF f.quantity.kind = "blank" THEN Num(1000) ELSE f.quantity) <= 0
       \/ _parse_decimal(f.gross_price) < 0

\* one position of the form as _extract_items_from_form appends it
ItemOf(f, tax_rate) ==
    LET quantity_decimal == _parse_decimal(IF f.quantity.kind = "blank"
                                           THEN Num(1000) ELSE f.quantity)
        unit_price_gross == _parse_decimal(f.gross_price)
        unit_price_net   == IF tax_rate # 0
                            THEN RoundHalfUpDiv(unit_price_gross * 100,
                                                (100 + tax_rate) * 10) * 10
                            ELSE unit_price_gross
    IN  [description      |-> Strip(f.description),
         quantity         |-> quantity_decimal,
         unit_price_net   |-> unit_price_net,
         unit_price_gross |-> QuantizeMoney(unit_price_gross),
         line_total_net   |-> RoundHalfUpDiv(quantity_decimal * unit_price_net, 10000) * 10,
         line_total_gross |-> RoundHalfUpDiv(quantity_decimal * unit_price_gross, 10000) * 10]

\* _extract_items_from_form: positions with a blank description are skipped;
\* ok is FALSE where it raises
RECURSIVE _extract_items_from_form(_, _)
_extract_items_from_form(fs, tax_rate) ==
    IF fs = <<>> THEN [ok |-> TRUE, items |-> <<>>]
    ELSE LET rest == _extract_items_from_form(Tail(fs), tax_rate)
         IN  IF Strip(Head(fs).description) = "" THEN rest
             ELSE IF ItemRaises(Head(fs), tax_rate) \/ ~rest.ok
                  THEN [ok |-> FALSE, items |-> <<>>]
                  ELSE [ok |-> TRUE,
                        items |-> <<ItemOf(Head(fs), tax_rate)>> \o rest.items]

RECURSIVE SumLineTotalNet(_)
SumLineTotalNet(items) ==
    IF items = <<>> THEN 0
    ELSE Head(items).line_total_net + SumLineTotalNet(Tail(items))

RECURSIVE SumLineTotalGross(_)
SumLineTotalGross(items) ==
    IF items = <<>> THEN 0
    ELSE Head(items).line_total_gross + SumLineTotalGross(Tail(items))

\* the try block of new_invoice / edit_invoice raises ValueError or
\* InvalidOperation
FormRaises(form) ==
    \/ form.issue_date = NoDate
    \/ RaisesInvalidOperation(form.amount_paid)
    \/ ~_extract_items_from_form(form.items, form.tax_rate).ok
    \/ _extract_items_from_form(form.items, form.tax_rate).items = <<>>

\* the Invoice the try block builds from an accepted form
InvoiceOf(form, doc_type, number) ==
    LET items       == _extract_items_from_form(form.items, form.tax_rate).items
        net_total   == QuantizeMoney(SumLineTotalNet(items))
        gross_total == QuantizeMoney(SumLineTotalGross(items))
        amount_paid == IF form.amount_paid.kind = "blank" THEN gross_total
                       ELSE QuantizeMoney(form.amount_paid.milli)
    IN  [document_type |-> doc_type,
         number        |-> number,
         issue_date    |-> form.issue_date,
         amount_paid   |-> {amount_paid},
         items         |-> items,
         net_amount    |-> net_total,
         tax_rate      |-> form.tax_rate,
         gross_amount  |-> gross_total]

----------------------------------------------------------------------------
(* The store: what the requests carry *)

\* date.today() of every request
Today == Date(2025, 1, 31)

\* the dates the forms and the files carry
January == Date(2025, 1, 31)

February == Date(2025, 2, 1)

\* one position of the invoice form
Position(description, quantity, gross_price) ==
    [description |-> description, quantity |-> quantity,
     gross_price |-> gross_price]

PosTen == Position("usluga", Num(1000), Num(10000))

\* 3 x 0.335 = 1.005, a tie of the line total
PosTie == Position("usluga", Num(3000), Num(335))

\* a price with a third fractional digit, the quantity left blank
PosThird == Position("usluga", Blank, Num(10005))

PosNoDescription == Position("  ", Num(1000), Num(5000))

PosZeroQuantity == Position("usluga", Num(0), Num(10000))

PosNegativePrice == Position("usluga", Num(1000), Num(-1000))

PosBadPrice == Position("usluga", Num(1000), NotANumber)

\* request.form of new_invoice / edit_invoice
Form(issue_date, doc_type, number, tax_rate, amount_paid, items) ==
    [issue_date |-> issue_date, document_type |-> doc_type,
     number |-> number, tax_rate |-> tax_rate, amount_paid |-> amount_paid,
     items |-> items]

\* forms that differ in type, month and number
NumberingForms ==
    {Form(January, "faktura", "", 0, Blank, <<PosTen>>),
     Form(January, "Paragon", "", 0, Blank, <<PosTen>>),
     Form(February, "faktura", "", 0, Blank, <<PosTen>>),
     Form(January, "faktura", " -4/1/2025", 0, Blank, <<PosTen>>),
     Form(January, "faktura", "FV/1/2025", 0, Blank, <<PosTen>>)}

\* forms that differ in their amounts
MoneyForms ==
    {Form(January, "inny", "", 0, Num(2345), <<PosNoDescription, PosTie>>),
     Form(January, "paragon", "", 23, Num(-1005), <<PosThird>>)}

\* forms the try block raises on
RejectedForms ==
    {Form(NoDate, "paragon", "", 0, Blank, <<PosTen>>),
     Form(January, "paragon", "", 0, NotANumber, <<PosTen>>),
     Form(January, "paragon", "", 0, Blank, <<PosNoDescription>>),
     Form(January, "paragon", "", 0, Blank, <<PosTen, PosZeroQuantity>>),
     Form(January, "paragon", "", 0, Blank, <<PosNegativePrice>>),
     Form(January, "paragon", "", 0, Blank, <<PosBadPrice>>)}

InvoiceForms == NumberingForms \cup MoneyForms \cup RejectedForms

EditForms ==
    {Form(February, "faktura", "", 0, Blank, <<PosTen>>),
     Form(January, "", "9/1/2025", 0, Blank, <<PosTie>>),
     Form(January, "paragon", "", 0, Blank, <<PosZeroQuantity>>)}

\* one row of the sales CSV: the cells _row_get reads
CsvRow(number, typ, data, brutto, netto) ==
    [number |-> number, typ |-> typ, data |-> data, brutto |-> brutto,
     netto |-> netto]

\* the files of import_invoices_csv
InvoiceFiles ==
    {<<CsvRow("5/1/2025", "", January, Num(-5000), Blank)>>,
     <<CsvRow("6/1/2025", "PAR", NoDate, Num(10004), Blank),
       CsvRow("", "paragon", January, Num(1000), Blank),
       CsvRow("6/1/2025", "paragon", January, Num(2000), Blank)>>,
     <<CsvRow("R/2", "rachunek", February, Blank, Num(4000)),
       CsvRow("8/2/2025", "fh", February, NotANumber, Blank),
       CsvRow("R/9", "Rachunek", January, Num(3600000), Blank)>>}

\* request.form of new_ndg_document
NdgForm(document_date, number, supplier_name, amount_raw) ==
    [document_date |-> document_date, number |-> number,
     supplier_name |-> supplier_name, amount |-> amount_raw]

NdgForms ==
    {NdgForm(January, "N1", "Dostawca", Num(12345)),
     NdgForm(January, "N3", "Dostawca", Num(0)),
     NdgForm(January, "N4", "", Num(5000)),
     NdgForm(NoDate, "N5", "Dostawca", Num(5000)),
     NdgForm(January, "N6", "Dostawca", NotANumber)}

\* how many files the "attachments" field of an NDG form carries
Uploads == {0, 1}

\* request.form of edit_ndg_document
NdgEditForms ==
    {NdgForm(February, "N1", "Dostawca", Num(20005)),
     NdgForm(January, "N1", "Dostawca", Num(-1000))}

\* request.form of purge_documents: the scope field, when it is given
PurgeForm(given, text) == [given |-> given, text |-> text]

PurgeForms ==
    {PurgeForm(FALSE, ""), PurgeForm(TRUE, ""), PurgeForm(TRUE, "all"),
     PurgeForm(TRUE, "sales"), PurgeForm(TRUE, "sprzedaz"),
     PurgeForm(TRUE, "sale"), PurgeForm(TRUE, "ndg"), PurgeForm(TRUE, "NDG"),
     PurgeForm(TRUE, "koszty"), PurgeForm(TRUE, "invoices")}

\* one row of the NDG CSV
NdgCsvRow(number, data, kwota) ==
    [number |-> number, data |-> data, kwota |-> kwota]

NdgFiles ==
    {<<NdgCsvRow("N1", NoDate, Num(8885)),
       NdgCsvRow("", January, Num(1000)),
       NdgCsvRow("N8", February, NotANumber),
       NdgCsvRow("N9", February, Blank)>>}

\* request.form of service_templates_view
TemplateForm(name, description, gross_price) ==
    [name |-> name, description |-> description, gross_price |-> gross_price]

TemplateForms ==
    {TemplateForm("Usluga", "opis", Num(99995)),
     TemplateForm("", "opis", Num(1000)),
     TemplateForm("Usluga", "opis", NotANumber)}

\* what a handler answers
Answer(handler, stored, number, usage, remaining, words_arg) ==
    [handler |-> handler, stored |-> stored, number |-> number,
     usage |-> usage, remaining |-> remaining, words_arg |-> words_arg,
     asked_type |-> "", asked_year |-> 0, asked_month |-> 0,
     usage_percent |-> [num |-> 0, den |-> 1],
     scope |-> [given |-> FALSE, text |-> ""]]

\* the answer of next_number_api, with the type and the month it was asked for
NumberAnswer(number, doc_type, issue_date) ==
    [Answer("next_number_api", FALSE, number, 0, 0, 0)
        EXCEPT !.asked_type = doc_type, !.asked_year = issue_date.year,
               !.asked_month = issue_date.month]

----------------------------------------------------------------------------
(* The store: the request handlers *)

\* func.sum over the rows dated in [start, end)
RECURSIVE SumGrossBetween(_, _)
SumGrossBetween(rows, bounds) ==
    IF rows = <<>> THEN 0
    ELSE (IF InBounds(Head(rows).issue_date, bounds)
          THEN Head(rows).gross_amount ELSE 0)
         + SumGrossBetween(Tail(rows), bounds)

RECURSIVE SumAmountBetween(_, _)
SumAmountBetween(docs, bounds) ==
    IF docs = <<>> THEN 0
    ELSE (IF InBounds(Head(docs).document_date, bounds)
          THEN Head(docs).amount ELSE 0)
         + SumAmountBetween(Tail(docs), bounds)

\* variant: the documents of the cost table are added to the sales of the month
AggregateSalesAndNdg(rows, docs, reference, months_back) ==
    [i \in 1..months_back |->
        QuantizeMoney(
            SumGrossBetween(rows, _month_bounds(reference, -(months_back - i)))
            + SumAmountBetween(docs, _month_bounds(reference, -(months_back - i))))]

\* _aggregate_monthly_sales: the totals of the last months_back months, the
\* month of reference last (the cost table is not read)
_aggregate_monthly_sales(rows, docs, reference, months_back) ==
    [i \in 1..months_back |->
        QuantizeMoney(
            SumGrossBetween(rows, _month_bounds(reference, -(months_back - i))))]

\* max(a, b)
Max(a, b) == IF a >= b THEN a ELSE b

\* the run of auto-numbered submissions after one more accepted new_invoice
RunAfter(rows, doc_type, issue_date, blank_number) ==
    IF ~blank_number THEN NoRun
    ELSE IF /\ run.active
            /\ run.document_type = doc_type
            /\ run.year = issue_date.year
            /\ run.month = issue_date.month
         THEN [run EXCEPT !.k = @ + 1]
    ELSE IF RowsOfMonth(rows, doc_type, issue_date) = <<>>
         THEN [active |-> TRUE, document_type |-> doc_type,
               year |-> issue_date.year, month |-> issue_date.month, k |-> 1]
    ELSE NoRun

\* new_invoice, POST
NewInvoice ==
    /\ response = NoResponse
    /\ \E form \in InvoiceForms :
        LET lowered  == Lower(form.document_type)
            doc_type == IF lowered \in {"faktura", "paragon"} THEN lowered
                        ELSE "paragon"
            typed    == Strip(form.number)
            number   == IF typed = ""
                        THEN _next_document_number(invoices, doc_type, form.issue_date)
                        ELSE typed
        IN  \/ /\ FormRaises(form)
               /\ response' = Answer("new_invoice", FALSE,
                      _next_document_number(invoices, "paragon", Today), 0, 0, 0)
               /\ UNCHANGED <<invoices, run, commits>>
            \/ /\ ~FormRaises(form)
               /\ commits < MaxCommits
               /\ commits' = commits + 1
               /\ invoices' = Append(invoices, InvoiceOf(form, doc_type, number))
               /\ run' = RunAfter(invoices, doc_type, form.issue_date, typed = "")
               /\ response' = Answer("new_invoice", TRUE, number, 0, 0, 0)
    /\ UNCHANGED <<ndg_documents, ndg_attachments, service_templates,
                   wordsVars, fnVars, raceVars>>

\* edit_invoice assigning the issue date before the form is checked
EditInvoiceAssignsFirst ==
    /\ response = NoResponse
    /\ \E i \in 1..Len(invoices), form \in EditForms :
        LET invoice  == invoices[i]
            lowered  == Lower(IF form.document_type = "" THEN invoice.document_type
                              ELSE form.document_type)
            doc_type == IF lowered \in {"faktura", "paragon"} THEN lowered
                        ELSE invoice.document_type
            typed    == IF Strip(form.number) = "" THEN invoice.number
                        ELSE Strip(form.number)
            number   == IF typed # "" THEN typed
                        ELSE _next_document_number(invoices, doc_type, form.issue_date)
        IN  \/ /\ FormRaises(form)
               /\ response' = Answer("edit_invoice", FALSE, invoice.number, 0, 0, 0)
               /\ invoices' = [invoices EXCEPT ![i].issue_date = form.issue_date]
               /\ UNCHANGED <<run, commits>>
            \/ /\ ~FormRaises(form)
               /\ commits < MaxCommits
               /\ commits' = commits + 1
               /\ invoices' = [invoices EXCEPT ![i] = InvoiceOf(form, doc_type, number)]
               /\ run' = NoRun
               /\ response' = Answer("edit_invoice", TRUE, number, 0, 0, 0)
    /\ UNCHANGED <<ndg_documents, ndg_attachments, service_templates, wordsVars,
                   fnVars, raceVars>>

\* edit_invoice, POST
EditInvoice ==
    /\ response = NoResponse
    /\ \E i \in 1..Len(invoices), form \in EditForms :
        LET invoice  == invoices[i]
            lowered  == Lower(IF form.document_type = "" THEN invoice.document_type
                              ELSE form.document_type)
            doc_type == IF lowered \in {"faktura", "paragon"} THEN lowered
                        ELSE invoice.document_type
            typed    == IF Strip(form.number) = "" THEN invoice.number
                        ELSE Strip(form.number)
            number   == IF typed # "" THEN typed
                        ELSE _next_document_number(invoices, doc_type, form.issue_date)
        IN  \/ /\ FormRaises(form)
               /\ response' = Answer("edit_invoice", FALSE, invoice.number, 0, 0, 0)
               /\ UNCHANGED <<invoices, run, commits>>
            \/ /\ ~FormRaises(form)
               /\ commits < MaxCommits
               /\ commits' = commits + 1
               /\ invoices' = [invoices EXCEPT ![i] = InvoiceOf(form, doc_type, number)]
               /\ run' = NoRun
               /\ response' = Answer("edit_invoice", TRUE, number, 0, 0, 0)
    /\ UNCHANGED <<ndg_documents, ndg_attachments, service_templates,
                   wordsVars, fnVars, raceVars>>

\* the sequence without its i-th element
Without(seq, i) == SubSeq(seq, 1, i - 1) \o SubSeq(seq, i + 1, Len(seq))

\* delete_invoice
DeleteInvoice ==
    /\ response = NoResponse
    /\ commits < MaxCommits
    /\ \E i \in 1..Len(invoices) :
        /\ invoices' = Without(invoices, i)
        /\ response' = Answer("delete_invoice", TRUE, invoices[i].number, 0, 0, 0)
    /\ run' = NoRun
    /\ commits' = commits + 1
    /\ UNCHANGED <<ndg_documents, ndg_attachments, service_templates,
                   wordsVars, fnVars, raceVars>>

\* Invoice.query.filter_by(number=..., document_type=...).first() finds a row
HasNumber(rows, number, doc_type) ==
    \E j \in 1..Len(rows) :
        rows[j].number = number /\ rows[j].document_type = doc_type

\* the document type import_invoices_csv derives from the "Typ" cell
ImportedType(typ) ==
    LET document_type_raw == Lower(Strip(IF typ = "" THEN "faktura" ELSE typ))
    IN  IF document_type_raw \in {"pa", "par", "paragon"} THEN "paragon"
        ELSE IF document_type_raw \in {"fhan", "fh", "faktura"} THEN "faktura"
        ELSE IF Contains(document_type_raw, "rach") THEN "rachunek"
        ELSE "faktura"

\* the amount cell import_invoices_csv parses: gross_str or net_str or "0"
GrossCell(row) ==
    IF row.brutto.kind # "blank" THEN row.brutto
    ELSE IF row.netto.kind # "blank" THEN row.netto
    ELSE Num(0)

\* the Invoice import_invoices_csv builds from one row of the file
ImportedInvoice(row) ==
    LET gross_amount == _parse_decimal(GrossCell(row))
        net_amount   == IF row.netto.kind = "num" THEN _parse_decimal(row.netto)
                        ELSE gross_amount
    IN  [document_type |-> ImportedType(row.typ),
         number        |-> row.number,
         issue_date    |-> IF row.data = NoDate THEN Today ELSE row.data,
         amount_paid   |-> {},
         items         |-> <<[description      |-> "Pozycja",
                              quantity         |-> 1000,
                              unit_price_net   |-> net_amount,
                              unit_price_gross |-> gross_amount,
                              line_total_net   |-> net_amount,
                              line_total_gross |-> gross_amount]>>,
         net_amount    |-> net_amount,
         tax_rate      |-> 0,
         gross_amount  |-> gross_amount]

\* the loop of import_invoices_csv looking only at the rows the table held
\* before the import
ImportInvoiceRowsStale(file, rows) ==
    LET Kept(row) == ~(\/ Strip(row.number) = ""
                       \/ HasNumber(rows, row.number, ImportedType(row.typ))
                       \/ RaisesInvalidOperation(GrossCell(row)))
        kept == SelectSeq(file, Kept)
    IN  rows \o [k \in 1..Len(kept) |-> ImportedInvoice(kept[k])]

\* the loop of import_invoices_csv: rows without a number, rows whose number
\* and type are already in the table (rows added earlier in the loop
\* included) and rows whose amount does not parse are skipped
RECURSIVE ImportInvoiceRows(_, _)
ImportInvoiceRows(file, rows) ==
    IF file = <<>> THEN rows
    ELSE LET row == Head(file)
         IN  IF \/ Strip(row.number) = ""
                \/ HasNumber(rows, row.number, ImportedType(row.typ))
                \/ RaisesInvalidOperation(GrossCell(row))
             THEN ImportInvoiceRows(Tail(file), rows)
             ELSE ImportInvoiceRows(Tail(file), Append(rows, ImportedInvoice(row)))

\* import_invoices_csv
ImportInvoicesCsv ==
    /\ response = NoResponse
    /\ \E file \in InvoiceFiles :
        LET after == ImportInvoiceRows(file, invoices)
        IN  /\ after # invoices => commits < MaxCommits
            /\ commits' = IF after # invoices THEN commits + 1 ELSE commits
            /\ invoices' = after
            /\ run' = IF after = invoices THEN run ELSE NoRun
            /\ response' = Answer("import_invoices_csv", after # invoices, "",
                                   0, 0, 0)
    /\ UNCHANGED <<ndg_documents, ndg_attachments, service_templates,
                   wordsVars, fnVars, raceVars>>

\* the try block of new_ndg_document raises
NdgFormRaises(form) ==
    \/ form.document_date = NoDate
    \/ RaisesInvalidOperation(form.amount)
    \/ Strip(form.number) = ""
    \/ Strip(form.supplier_name) = ""
    \/ _parse_decimal(form.amount) <= 0

\* the id SQLite gives the next row of a table: one more than the largest id
\* in use, 1 for an empty table
NextId(rows) ==
    IF rows = <<>> THEN 1
    ELSE 1 + (CHOOSE m \in {rows[j].id : j \in 1..Len(rows)} :
                 \A j \in 1..Len(rows) : rows[j].id <= m)

\* the NDGAttachment rows appended for the uploads of one request; held is
\* the table as the INSERT finds it
WithUploads(atts, held, document_id, uploads) ==
    IF uploads = 0 THEN atts
    ELSE Append(atts, [id |-> NextId(held), document_id |-> document_id])

\* document.attachments: the rows whose document_id is the document's id
AttachmentsOf(atts, document_id) ==
    {j \in 1..Len(atts) : atts[j].document_id = document_id}

\* the rows of a table without those at the given positions
WithoutAll(rows, positions) ==
    LET Kept(j) == j \notin positions
        kept == SelectSeq([j \in 1..Len(rows) |-> j], Kept)
    IN  [k \in 1..Len(kept) |-> rows[kept[k]]]

\* new_ndg_document, POST
NewNdgDocument ==
    /\ response = NoResponse
    /\ \E form \in NdgForms, uploads \in Uploads :
        \/ /\ NdgFormRaises(form)
           /\ response' = Answer("new_ndg_document", FALSE, "", 0, 0, 0)
           /\ UNCHANGED <<ndg_documents, ndg_attachments, commits>>
        \/ /\ ~NdgFormRaises(form)
           /\ commits < MaxCommits
           /\ commits' = commits + 1
           /\ ndg_documents' = Append(ndg_documents,
                  [id            |-> NextId(ndg_documents),
                   number        |-> Strip(form.number),
                   document_date |-> form.document_date,
                   amount        |-> QuantizeMoney(_parse_decimal(form.amount))])
           /\ ndg_attachments' = WithUploads(ndg_attachments, ndg_attachments,
                                             NextId(ndg_documents), uploads)
           /\ response' = Answer("new_ndg_document", TRUE, Strip(form.number),
                                  0, 0, 0)
    /\ UNCHANGED <<invoices, service_templates, run, wordsVars, fnVars,
                   raceVars>>

\* edit_ndg_document, POST: remove_all stands for remove_attachment_ids naming
\* every attachment of the document, the other choice for an empty list; the
\* commit flushes the INSERT of the new attachment before the DELETEs
EditNdgDocument ==
    /\ response = NoResponse
    /\ \E i \in 1..Len(ndg_documents), form \in NdgEditForms,
          remove_all \in BOOLEAN, uploads \in Uploads :
        LET document == ndg_documents[i]
            removed  == IF remove_all
                        THEN AttachmentsOf(ndg_attachments, document.id)
                        ELSE {}
        IN  \/ /\ NdgFormRaises(form)
               /\ response' = Answer("edit_ndg_document", FALSE,
                                      document.number, 0, 0, 0)
               /\ UNCHANGED <<ndg_documents, ndg_attachments, commits>>
            \/ /\ ~NdgFormRaises(form)
               /\ commits < MaxCommits
               /\ commits' = commits + 1
               /\ ndg_attachments' =
                      WithUploads(WithoutAll(ndg_attachments, removed),
                                  ndg_attachments, document.id, uploads)
               /\ ndg_documents' = [ndg_documents EXCEPT ![i] =
                      [id            |-> document.id,
                       number        |-> Strip(form.number),
                       document_date |-> form.document_date,
                       amount        |-> QuantizeMoney(_parse_decimal(form.amount))]]
               /\ response' = Answer("edit_ndg_document", TRUE,
                                      Strip(form.number), 0, 0, 0)
    /\ UNCHANGED <<invoices, service_templates, run, wordsVars, fnVars,
                   raceVars>>

\* delete_ndg_document: the session deletes the document and, by the cascade
\* of NDGDocument.attachments, the rows of document.attachments
DeleteNdgDocument ==
    /\ response = NoResponse
    /\ commits < MaxCommits
    /\ \E i \in 1..Len(ndg_documents) :
        /\ ndg_documents' = Without(ndg_documents, i)
        /\ ndg_attachments' = WithoutAll(ndg_attachments,
                AttachmentsOf(ndg_attachments, ndg_documents[i].id))
        /\ response' = Answer("delete_ndg_document", TRUE,
                               ndg_documents[i].number, 0, 0, 0)
    /\ commits' = commits + 1
    /\ UNCHANGED <<invoices, service_templates, run, wordsVars, fnVars,
                   raceVars>>

\* delete_ndg_attachment
DeleteNdgAttachment ==
    /\ response = NoResponse
    /\ commits < MaxCommits
    /\ \E j \in 1..Len(ndg_attachments) :
        ndg_attachments' = Without(ndg_attachments, j)
    /\ response' = Answer("delete_ndg_attachment", TRUE, "", 0, 0, 0)
    /\ commits' = commits + 1
    /\ UNCHANGED <<invoices, ndg_documents, service_templates, run,
                   wordsVars, fnVars, raceVars>>

\* purge_documents deleting both tables whatever the scope
PurgeDocumentsIgnoresScope ==
    /\ response = NoResponse
    /\ \E form \in PurgeForms :
        LET changed == invoices # <<>> \/ ndg_documents # <<>>
        IN  /\ changed => commits < MaxCommits
            /\ commits' = IF changed THEN commits + 1 ELSE commits
            /\ invoices' = <<>>
            /\ ndg_documents' = <<>>
            /\ run' = IF invoices # <<>> THEN NoRun ELSE run
            /\ response' = [Answer("purge_documents", changed, "", 0, 0, 0)
                               EXCEPT !.scope = form]
    /\ UNCHANGED <<ndg_attachments, service_templates, wordsVars, fnVars,
                   raceVars>>

\* purge_documents: both deletes are bulk DELETE statements of the query, so
\* no cascade of the session runs, and SQLite, which the application opens
\* without  PRAGMA foreign_keys, does not enforce ndg_attachments.document_id
PurgeDocuments ==
    /\ response = NoResponse
    /\ \E form \in PurgeForms :
        LET scope == Lower(IF ~form.given \/ form.text = "" THEN "all"
                           ELSE form.text)
            delete_sales == scope \in {"sales", "sprzedaz", "sale", "all"}
            delete_ndg   == scope \in {"ndg", "koszty", "all"}
            changed == \/ delete_sales /\ invoices # <<>>
                       \/ delete_ndg /\ ndg_documents # <<>>
        IN  /\ changed => commits < MaxCommits
            /\ commits' = IF changed THEN commits + 1 ELSE commits
            /\ invoices' = IF delete_sales THEN <<>> ELSE invoices
            /\ ndg_documents' = IF delete_ndg THEN <<>> ELSE ndg_documents
            /\ run' = IF delete_sales /\ invoices # <<>> THEN NoRun ELSE run
            /\ response' = [Answer("purge_documents", changed, "", 0, 0, 0)
                               EXCEPT !.scope = form]
    /\ UNCHANGED <<ndg_attachments, service_templates, wordsVars, fnVars,
                   raceVars>>

\* the loop of import_ndg_csv
RECURSIVE ImportNdgRows(_, _)
ImportNdgRows(file, docs) ==
    IF file = <<>> THEN docs
    ELSE LET row == Head(file)
         IN  IF \/ Strip(row.number) = ""
                \/ \E j \in 1..Len(docs) : docs[j].number = row.number
                \/ RaisesInvalidOperation(row.kwota)
             THEN ImportNdgRows(Tail(file), docs)
             ELSE ImportNdgRows(Tail(file), Append(docs,
                      [id            |-> NextId(docs),
                       number        |-> row.number,
                       document_date |-> IF row.data = NoDate THEN Today
                                         ELSE row.data,
                       amount        |-> QuantizeMoney(_parse_decimal(row.kwota))]))

\* import_ndg_csv
ImportNdgCsv ==
    /\ response = NoResponse
    /\ \E file \in NdgFiles :
        LET after == ImportNdgRows(file, ndg_documents)
        IN  /\ after # ndg_documents => commits < MaxCommits
            /\ commits' = IF after # ndg_documents THEN commits + 1 ELSE commits
            /\ ndg_documents' = after
            /\ response' = Answer("import_ndg_csv", after # ndg_documents, "",
                                   0, 0, 0)
    /\ UNCHANGED <<invoices, ndg_attachments, service_templates, run,
                   wordsVars, fnVars, raceVars>>

\* service_templates_view, POST
ServiceTemplatesView ==
    /\ response = NoResponse
    /\ \E form \in TemplateForms :
        \/ /\ \/ Strip(form.name) = ""
              \/ Strip(form.description) = ""
              \/ form.gross_price.kind # "num"
           /\ response' = Answer("service_templates_view", FALSE, "", 0, 0, 0)
           /\ UNCHANGED <<service_templates, commits>>
        \/ /\ Strip(form.name) # ""
           /\ Strip(form.description) # ""
           /\ form.gross_price.kind = "num"
           /\ commits < MaxCommits
           /\ commits' = commits + 1
           /\ service_templates' = Append(service_templates,
                  [name        |-> Strip(form.name),
                   gross_price |-> QuantizeMoney(form.gross_price.milli)])
           /\ response' = Answer("service_templates_view", TRUE, "", 0, 0, 0)
    /\ UNCHANGED <<invoices, ndg_documents, ndg_attachments, run, wordsVars,
                   fnVars, raceVars>>

Min(a, b) == IF a <= b THEN a ELSE b

\* the usage as a fraction of the limit in percent, num / den, kept between
\* 0 and 100; the conversion to float keeps both ends, which are exact
UsagePercent(usage) ==
    [num |-> Max(0, Min(usage * 100, 100 * NDG_MONTHLY_LIMIT)),
     den |-> NDG_MONTHLY_LIMIT]

\* dashboard without the floor of the remaining amount at zero
DashboardNoFloor ==
    /\ response = NoResponse
    /\ LET sales_data == _aggregate_monthly_sales(invoices, ndg_documents, Today, 6)
           current_month_usage == sales_data[Len(sales_data)]
           current_remaining == NDG_MONTHLY_LIMIT - current_month_usage
       IN  response' = [Answer("dashboard", FALSE, "", current_month_usage,
                               current_remaining, 0)
                          EXCEPT !.usage_percent = UsagePercent(current_month_usage)]
    /\ UNCHANGED <<invoices, ndg_documents, ndg_attachments, service_templates,
                   run, commits, wordsVars, fnVars, raceVars>>

\* dashboard
Dashboard ==
    /\ response = NoResponse
    /\ LET sales_data == _aggregate_monthly_sales(invoices, ndg_documents, Today, 6)
           current_idx == Len(sales_data)
           current_month_sales == sales_data[current_idx]
           current_month_usage == current_month_sales
           current_remaining == Max(NDG_MONTHLY_LIMIT - current_month_usage, 0)
       IN  response' = [Answer("dashboard", FALSE, "", current_month_usage,
                               current_remaining, 0)
                          EXCEPT !.usage_percent = UsagePercent(current_month_usage)]
    /\ UNCHANGED <<invoices, ndg_documents, ndg_attachments, service_templates,
                   run, commits, wordsVars, fnVars, raceVars>>

\* dashboard_data
DashboardData ==
    /\ response = NoResponse
    /\ LET sales_data == _aggregate_monthly_sales(invoices, ndg_documents, Today, 6)
           current_usage == sales_data[Len(sales_data)]
           current_remaining == Max(NDG_MONTHLY_LIMIT - current_usage, 0)
       IN  response' = Answer("dashboard_data", FALSE, "", current_usage,
                              current_remaining, 0)
    /\ UNCHANGED <<invoices, ndg_documents, ndg_attachments, service_templates,
                   run, commits, wordsVars, fnVars, raceVars>>

\* invoice_detail: amount_in_words = _number_to_words_pl(invoice.gross_amount)
InvoiceDetail ==
    /\ response = NoResponse
    /\ \E i \in 1..Len(invoices) :
          response' = Answer("invoice_detail", FALSE, invoices[i].number, 0, 0,
                             invoices[i].gross_amount)
    /\ UNCHANGED <<invoices, ndg_documents, ndg_attachments, service_templates,
                   run, commits, wordsVars, fnVars, raceVars>>

\* invoice_pdf: the renderers call _number_to_words_pl(invoice.gross_amount)
InvoicePdf ==
    /\ response = NoResponse
    /\ \E i \in 1..Len(invoices) :
          response' = Answer("invoice_pdf", FALSE, invoices[i].number, 0, 0,
                             invoices[i].gross_amount)
    /\ UNCHANGED <<invoices, ndg_documents, ndg_attachments, service_templates,
                   run, commits, wordsVars, fnVars, raceVars>>

\* next_number_api
NextNumberApi ==
    /\ response = NoResponse
    /\ \E raw_type \in {"faktura", "Paragon", "inny"},
          raw_date \in {January, February, NoDate} :
          LET lowered    == Lower(raw_type)
              doc_type   == IF lowered \in {"faktura", "paragon"} THEN lowered
                            ELSE "faktura"
              issue_date == IF raw_date = NoDate THEN Today ELSE raw_date
          IN  response' = NumberAnswer(
                  _next_document_number(invoices, doc_type, issue_date),
                  doc_type, issue_date)
    /\ UNCHANGED <<invoices, ndg_documents, ndg_attachments, service_templates,
                   run, commits, wordsVars, fnVars, raceVars>>

\* the answer has left; the server waits for the next request
Respond ==
    /\ response # NoResponse
    /\ response' = NoResponse
    /\ UNCHANGED <<invoices, ndg_documents, ndg_attachments, service_templates,
                   run, commits, wordsVars, fnVars, raceVars>>

StoreInit ==
    /\ WordsIdle
    /\ fn_call = NoCall
    /\ month_call = NoMonthCall
    /\ StoreIdle

StoreNext ==
    \/ NewInvoice
    \/ EditInvoice
    \/ DeleteInvoice
    \/ ImportInvoicesCsv
    \/ NewNdgDocument
    \/ EditNdgDocument
    \/ DeleteNdgDocument
    \/ DeleteNdgAttachment
    \/ PurgeDocuments
    \/ ImportNdgCsv
    \/ ServiceTemplatesView
    \/ Dashboard
    \/ DashboardData
    \/ InvoiceDetail
    \/ InvoicePdf
    \/ NextNumberApi
    \/ Respond

StoreSpec == StoreInit /\ [][StoreNext]_vars

----------------------------------------------------------------------------
(* The monthly windows applied on their own *)

\* the reference dates: the first and the 28th of every month of two years
ReferenceDates ==
    {Date(y, m, d) : y \in {2024, 2025}, m \in 1..12, d \in {1, 28}}

\* a stored invoice with the given number, issue date and gross amount
DatedInvoice(number, issue_date, gross) ==
    ImportedInvoice(CsvRow(number, "faktura", issue_date, Num(gross), Blank))

\* contents of the invoices table: dates on both sides of month and year ends
DatedTables ==
    {<<DatedInvoice("A1", Date(2024, 12, 31), 10000),
       DatedInvoice("A2", Date(2025, 1, 1), 20000),
       DatedInvoice("A3", Date(2025, 1, 31), 30005),
       DatedInvoice("A4", Date(2024, 7, 31), 40000),
       DatedInvoice("A5", Date(2024, 8, 1), 50000)>>,
     <<DatedInvoice("B1", Date(2024, 2, 29), 1000),
       DatedInvoice("B2", Date(2024, 3, 1), 2000),
       DatedInvoice("B3", Date(2025, 11, 30), 3000),
       DatedInvoice("B4", Date(2025, 12, 1), 4004),
       DatedInvoice("B5", Date(2025, 12, 31), 5000),
       DatedInvoice("B6", Date(2026, 1, 1), 6000),
       DatedInvoice("B7", Date(2023, 12, 31), 7000)>>}

\* _aggregate_monthly_sales: month_bounds, oldest month first
MonthBoundsList(reference, months_back) ==
    [i \in 1..months_back |-> _month_bounds(reference, -(months_back - i))]

MonthInit ==
    /\ WordsIdle
    /\ fn_call = NoCall
    /\ invoices \in DatedTables
    /\ ndg_documents = <<>>
    /\ ndg_attachments = <<>>
    /\ service_templates = <<>>
    /\ response = NoResponse
    /\ run = NoRun
    /\ commits = 0
    /\ requests = NoRequests
    /\ \E reference \in ReferenceDates, months_back \in 1..MaxMonthsBack :
          month_call = [state |-> "pending", reference |-> reference,
                        months_back |-> months_back, month_bounds |-> <<>>,
                        totals |-> <<>>]

\* _aggregate_monthly_sales(reference, months_back)
ApplyAggregateMonthlySales ==
    /\ month_call.state = "pending"
    /\ month_call' =
          [month_call EXCEPT
              !.state = "done",
              !.month_bounds = MonthBoundsList(month_call.reference,
                                               month_call.months_back),
              !.totals = _aggregate_monthly_sales(invoices, ndg_documents,
                             month_call.reference, month_call.months_back)]
    /\ UNCHANGED <<fn_call, wordsVars, storeVars, raceVars>>

MonthNext == ApplyAggregateMonthlySales

MonthSpec == MonthInit /\ [][MonthNext]_vars

----------------------------------------------------------------------------
(* Two new_invoice requests served at the same time *)

\* Each request runs new_invoice in its own thread with its own session.
\* Between the SELECT of _next_document_number and the INSERT of
\* db.session.commit() nothing is locked and the invoices table has no
\* unique constraint on number, so the other request may run in between.

\* the requests served at the same time
Clients == {1, 2}

\* a request that is not being served
IdleRequest == [pc |-> "idle", document_type |-> "", number |-> "",
                form |-> Form(NoDate, "", "", 0, Blank, <<>>)]

\* the forms the two clients submit: the number is left blank
BlankNumberForms == {form \in NumberingForms : Strip(form.number) = ""}

RaceInit ==
    /\ WordsIdle
    /\ fn_call = NoCall
    /\ month_call = NoMonthCall
    /\ invoices = <<>>
    /\ ndg_documents = <<>>
    /\ ndg_attachments = <<>>
    /\ service_templates = <<>>
    /\ response = NoResponse
    /\ run = NoRun
    /\ commits = 0
    /\ requests = [c \in Clients |-> IdleRequest]

\* the requests that have read their number and not yet committed
Pending == {c \in Clients : requests[c].pc = "numbered"}

\* new_invoice up to and including _next_document_number: the form is read
\* and the number is chosen from the rows committed so far
Request_Number(c) ==
    /\ requests[c].pc = "idle"
    /\ commits + Cardinality(Pending) < MaxCommits
    /\ \E form \in BlankNumberForms :
          LET lowered  == Lower(form.document_type)
              doc_type == IF lowered \in {"faktura", "paragon"} THEN lowered
                          ELSE "paragon"
          IN  requests' = [requests EXCEPT ![c] =
                  [pc |-> "numbered", document_type |-> doc_type,
                   number |-> _next_document_number(invoices, doc_type,
                                                    form.issue_date),
                   form |-> form]]
    /\ UNCHANGED <<invoices, ndg_documents, ndg_attachments, service_templates,
                   response, run, commits, wordsVars, fnVars>>

\* new_invoice from the items to db.session.commit(): the row is inserted
\* with the number chosen earlier
Request_Commit(c) ==
    /\ requests[c].pc = "numbered"
    /\ invoices' = Append(invoices,
          InvoiceOf(requests[c].form, requests[c].document_type,
                    requests[c].number))
    /\ commits' = commits + 1
    /\ requests' = [requests EXCEPT ![c] = [@ EXCEPT !.pc = "stored"]]
    /\ UNCHANGED <<ndg_documents, ndg_attachments, service_templates, response,
                   run, wordsVars, fnVars>>

\* the redirect is sent; the client may submit again
Request_Return(c) ==
    /\ requests[c].pc = "stored"
    /\ requests' = [requests EXCEPT ![c] = IdleRequest]
    /\ UNCHANGED <<invoices, ndg_documents, ndg_attachments, service_templates,
                   response, run, commits, wordsVars, fnVars>>

Number == \E c \in Clients : Request_Number(c)

Commit == \E c \in Clients : Request_Commit(c)

Return == \E c \in Clients : Request_Return(c)

RaceNext ==
    \/ Number
    \/ Commit
    \/ Return

RaceSpec == RaceInit /\ [][RaceNext]_vars

----------------------------------------------------------------------------
(* The claims about the store *)

\* the handlers that hand invoice.gross_amount to _number_to_words_pl
ConvertingHandlers == {"invoice_detail", "invoice_pdf"}

\* C13: in every reachable state of the store, after any sequence of
\* new_invoice, edit_invoice, import_invoices_csv and delete operations,
\* every gross_amount that invoice_detail or the invoice PDF passes to
\* _number_to_words_pl is non-negative.
C13_ConvertedGrossNonNegative ==
    response.handler \in ConvertingHandlers => response.words_arg >= 0

\* a value in thousandths that has no third fractional digit
AtCents(m) == m % 10 = 0

\* C14: every monetary value the application writes to the store (invoice
\* net_amount, gross_amount and amount_paid; NDG amount; service template
\* gross_price) has been quantized to 2 fractional digits before it is
\* stored.
C14_StoredMoneyQuantized ==
    /\ \A i \in 1..Len(invoices) :
          /\ AtCents(invoices[i].net_amount)
          /\ AtCents(invoices[i].gross_amount)
          /\ \A paid \in invoices[i].amount_paid : AtCents(paid)
    /\ \A i \in 1..Len(ndg_documents) : AtCents(ndg_documents[i].amount)
    /\ \A i \in 1..Len(service_templates) : AtCents(service_templates[i].gross_price)

\* the integers that prefix the numbers of the stored invoices of one type
\* issued in one calendar month
IntegerPrefixes(doc_type, year, month) ==
    {PyInt(FirstPart(invoices[i].number)).value :
        i \in {j \in 1..Len(invoices) :
                 /\ invoices[j].document_type = doc_type
                 /\ invoices[j].issue_date.year = year
                 /\ invoices[j].issue_date.month = month
                 /\ PyInt(FirstPart(invoices[j].number)).ok}}

\* the largest element of a non-empty set of integers
Largest(S) == CHOOSE x \in S : \A y \in S : y <= x

\* "N/M/Y"
NumberText(n, month, year) ==
    IntToStr(n) \o "/" \o NatToStr(month) \o "/" \o NatToStr(year)

\* C15 as stated: _next_document_number(type, date) returns "N/M/Y" with M
\* and Y the unpadded month and the year of date and N = 1 plus the largest
\* integer that prefixes the number of any stored invoice of the same type
\* issued in the same calendar month, or 1 when there is none.
C15_NextNumberAfterLargestPrefix ==
    response.handler = "next_number_api" =>
        LET P == IntegerPrefixes(response.asked_type, response.asked_year,
                                 response.asked_month)
        IN  response.number =
              NumberText(IF P = {} THEN 1 ELSE 1 + Largest(P),
                         response.asked_month, response.asked_year)

\* C15 amended: N = 1 plus the largest positive integer that prefixes the
\* number of any stored invoice of the same type issued in the same
\* calendar month, or 1 when no prefix is a positive integer (a prefix that
\* is zero or negative counts as little as one that is no integer);
\* invoices of another type or month do not affect N.
C15_NextNumberAfterLargestPositivePrefix ==
    response.handler = "next_number_api" =>
        LET P == IntegerPrefixes(response.asked_type, response.asked_year,
                                 response.asked_month)
        IN  response.number =
              NumberText(1 + Largest(P \cup {0}),
                         response.asked_month, response.asked_year)

C15_Witness ==
    /\ response.handler = "next_number_api"
    /\ response.asked_type = "faktura"
    /\ response.number = "6/1/2025"
    /\ \E i \in 1..Len(invoices) :
          invoices[i].number = "5/1/2025" /\ invoices[i].document_type = "faktura"
    /\ \E i \in 1..Len(invoices) : invoices[i].document_type = "paragon"

\* the sum of the amounts of the cost documents dated in one calendar month
RECURSIVE NdgCostsOfMonth(_, _, _)
NdgCostsOfMonth(docs, year, month) ==
    IF docs = <<>> THEN 0
    ELSE (IF Head(docs).document_date.year = year
             /\ Head(docs).document_date.month = month
          THEN Head(docs).amount ELSE 0)
         + NdgCostsOfMonth(Tail(docs), year, month)

\* the sum of the gross amounts of the invoices issued in one calendar month
RECURSIVE SalesOfMonth(_, _, _)
SalesOfMonth(rows, year, month) ==
    IF rows = <<>> THEN 0
    ELSE (IF Head(rows).issue_date.year = year
             /\ Head(rows).issue_date.month = month
          THEN Head(rows).gross_amount ELSE 0)
         + SalesOfMonth(Tail(rows), year, month)

DashboardHandlers == {"dashboard", "dashboard_data"}

RunNumbers ==
    LET rows == SelectSeq(invoices, LAMBDA row :
                    /\ row.document_type = run.document_type
                    /\ row.issue_date.year = run.year
                    /\ row.issue_date.month = run.month)
    IN  [j \in 1..Len(rows) |-> rows[j].number]

\* C17: starting from a store with no invoice of a given type and month,
\* k successive new_invoice submissions with a blank number for that type
\* and month, with no delete, edit or other stored invoice in between,
\* store the numbers 1/M/Y, 2/M/Y, ..., k/M/Y: consecutive, without gaps
\* and pairwise distinct.
C17_SuccessiveNumbersConsecutive ==
    run.active =>
        /\ Len(RunNumbers) = run.k
        /\ \A j \in 1..run.k :
              RunNumbers[j] = NumberText(j, run.month, run.year)
        /\ \A j, l \in 1..run.k : j # l => RunNumbers[j] # RunNumbers[l]

C17_Witness ==
    /\ run.active
    /\ run.k = 3
    /\ run.document_type = "faktura"
    /\ RunNumbers = <<"1/1/2025", "2/1/2025", "3/1/2025">>

\* C18: when two new_invoice requests with a blank number for the same
\* document type and issue month interleave (each reads the current
\* maximum, then inserts and commits), the stored invoices never carry the
\* same auto-generated number.
C18_InterleavedNumbersDistinct ==
    \A i, j \in 1..Len(invoices) :
        (/\ i # j
         /\ invoices[i].document_type = invoices[j].document_type
         /\ invoices[i].issue_date.year = invoices[j].issue_date.year
         /\ invoices[i].issue_date.month = invoices[j].issue_date.month)
        => invoices[i].number # invoices[j].number

\* the number of rows with the given number and document type
PairCount(rows, number, doc_type) ==
    Cardinality({j \in 1..Len(rows) :
        rows[j].number = number /\ rows[j].document_type = doc_type})

\* C23: import_invoices_csv never adds an invoice whose number and normalized
\* document type equal those of an invoice already in the table or of an
\* earlier row of the same file: the rows held before are kept as they were,
\* and no (number, type) pair is held more often after the import than
\* max(1, its count before).
C23_ImportAddsNoDuplicate ==
    [][(response = NoResponse /\ response'.handler = "import_invoices_csv") =>
          /\ Len(invoices') >= Len(invoices)
          /\ SubSeq(invoices', 1, Len(invoices)) = invoices
          /\ \A i \in 1..Len(invoices') :
                PairCount(invoices', invoices'[i].number,
                          invoices'[i].document_type)
                  <= Max(1, PairCount(invoices, invoices'[i].number,
                                      invoices'[i].document_type))]_vars

\* the file with two rows "6/1/2025" of type paragon has been imported
C23_Witness ==
    /\ response.handler = "import_invoices_csv"
    /\ response.stored
    /\ PairCount(invoices, "6/1/2025", "paragon") = 1

\* C24: in every state reachable through new_ndg_document, edit_ndg_document
\* and import_ndg_csv, every stored NDG document has an amount strictly
\* greater than zero.
C24_NdgAmountsPositive ==
    \A i \in 1..Len(ndg_documents) : ndg_documents[i].amount > 0

\* C25: after any sequence of NDG operations (create, edit with attachment
\* removal, delete_ndg_document, delete_ndg_attachment, purge_documents),
\* every stored NDGAttachment row refers to an NDGDocument that still exists,
\* so that no attachment of a removed document remains in the table.
C25_AttachmentsHaveDocument ==
    \A j \in 1..Len(ndg_attachments) :
        \E i \in 1..Len(ndg_documents) :
            ndg_documents[i].id = ndg_attachments[j].document_id

\* what a purge with the given scope text has to do to the two tables
PurgeEffect(text) ==
    /\ invoices' = IF text \in {"sales", "sprzedaz", "sale", "all"} THEN <<>>
                   ELSE invoices
    /\ ndg_documents' = IF text \in {"ndg", "koszty", "all"} THEN <<>>
                        ELSE ndg_documents
    /\ service_templates' = service_templates

\* the step is the answer of purge_documents
PurgeStep == response = NoResponse /\ response'.handler = "purge_documents"

\* the scope of the answered purge, "all" standing for a missing or empty one
AnsweredScope ==
    IF ~response'.scope.given \/ response'.scope.text = "" THEN "all"
    ELSE response'.scope.text

\* C26 as stated: purge_documents changes only what its scope names: scope
\* sales/sprzedaz/sale removes every invoice and leaves the NDG documents,
\* scope ndg/koszty removes every NDG document and leaves the invoices, scope
\* all or a missing scope removes both, any other scope value removes nothing,
\* and the service templates are never changed.
C26_PurgeByScopeAsGiven ==
    [][PurgeStep => PurgeEffect(AnsweredScope)]_vars

\* C26, amended: the scope is compared after lowercasing it, so that "NDG"
\* removes what "ndg" removes; a scope that is none of the named values in any
\* letter case removes nothing.
C26_PurgeByLoweredScope ==
    [][PurgeStep => PurgeEffect(Lower(AnsweredScope))]_vars

\* a purge with scope "NDG" has emptied the NDG table and kept the invoices
C26_Witness ==
    /\ response.handler = "purge_documents"
    /\ response.scope = PurgeForm(TRUE, "NDG")
    /\ response.stored
    /\ ndg_documents = <<>>
    /\ invoices # <<>>

\* the step is new_invoice or edit_invoice answering with the form and its
\* error instead of a redirect
RejectionStep ==
    /\ response = NoResponse
    /\ response'.handler \in {"new_invoice", "edit_invoice"}
    /\ ~response'.stored

\* C27: when new_invoice or edit_invoice rejects a submission (missing or
\* malformed issue date, no item with a non-empty description, quantity <= 0,
\* negative unit price, unparsable decimal), no invoice is added and no field
\* of any stored invoice is changed.
C27_RejectionChangesNothing ==
    [][RejectionStep => invoices' = invoices]_vars

\* edit_invoice has rejected a submission for a stored invoice
C27_Witness ==
    /\ response.handler = "edit_invoice"
    /\ ~response.stored
    /\ Len(invoices) >= 1
    /\ response.number = invoices[1].number

\* the step is new_invoice or edit_invoice saving the submission
SaveStep ==
    /\ response = NoResponse
    /\ response'.handler \in {"new_invoice", "edit_invoice"}
    /\ response'.stored

\* every line total of the row is the product of the quantity and the unit
\* price stored beside it, rounded half-up to cents
LineTotalsFromStoredPrice(row) ==
    \A k \in 1..Len(row.items) :
        row.items[k].line_total_gross =
            RoundHalfUpDiv(row.items[k].quantity * row.items[k].unit_price_gross,
                           10000) * 10

\* C28: for every item of an invoice saved through new_invoice or
\* edit_invoice, the stored line_total_gross equals
\* round_half_up(quantity * unit_price_gross) computed from the
\* unit_price_gross stored for that same item.
C28_LineTotalFromStoredPrice ==
    [][SaveStep =>
          \A i \in 1..Len(invoices') :
              (i > Len(invoices) \/ invoices'[i] # invoices[i]) =>
                  LineTotalsFromStoredPrice(invoices'[i])]_vars

\* C29: for every content of the store, the remaining amount of the dashboard
\* is max(NDG_MONTHLY_LIMIT - usage, 0) and is never negative, usage plus
\* remaining is the limit whenever usage <= limit, and usage_percent lies in
\* [0, 100].
C29_RemainingAndPercentBounded ==
    response.handler \in DashboardHandlers =>
        /\ response.remaining = Max(NDG_MONTHLY_LIMIT - response.usage, 0)
        /\ response.remaining >= 0
        /\ (response.usage <= NDG_MONTHLY_LIMIT =>
              response.usage + response.remaining = NDG_MONTHLY_LIMIT)
        /\ (response.usage > NDG_MONTHLY_LIMIT => response.remaining = 0)
        /\ response.usage_percent.den > 0
        /\ response.usage_percent.num >= 0
        /\ response.usage_percent.num <= 100 * response.usage_percent.den
        /\ (response.handler = "dashboard"
               /\ response.usage \in 0..NDG_MONTHLY_LIMIT =>
              /\ response.usage_percent.den = NDG_MONTHLY_LIMIT
              /\ response.usage_percent.num = response.usage * 100)

\* the month's sales are above the limit and the dashboard has answered
C29_Witness ==
    /\ response.handler = "dashboard"
    /\ response.usage > NDG_MONTHLY_LIMIT
    /\ response.remaining = 0
    /\ response.usage_percent.num = 100 * response.usage_percent.den

\* the first day of the month after the month of d
FirstOfNextMonth(d) ==
    IF d.month = 12 THEN Date(d.year + 1, 1, 1)
    ELSE Date(d.year, d.month + 1, 1)

\* the windows of the applied aggregation that hold the date
WindowsHolding(d) ==
    {i \in 1..Len(month_call.month_bounds) :
        InBounds(d, month_call.month_bounds[i])}

\* C30: for every reference date and months_back = k, the k windows built by
\* _month_bounds and _shift_month are consecutive calendar months in ascending
\* order ending with the month of the reference date, each the half-open
\* range from a first day to the first day of the next month, with the month
\* in 1..12 and a December window ending on 1 January of the next year; the
\* windows are pairwise disjoint, every invoice dated inside the span lies in
\* exactly one window and every other invoice in none, and each total is the
\* quantized sum of the invoices of its calendar month.
C30_MonthWindows ==
    month_call.state = "done" =>
        LET b == month_call.month_bounds
            k == month_call.months_back
        IN  /\ Len(b) = k
            /\ Len(month_call.totals) = k
            /\ b[k].start = Date(month_call.reference.year,
                                  month_call.reference.month, 1)
            /\ \A i \in 1..k :
                  /\ b[i].start.day = 1
                  /\ b[i].start.month \in 1..12
                  /\ b[i].end = FirstOfNextMonth(b[i].start)
                  /\ DateLt(b[i].start, b[i].end)
                  /\ month_call.totals[i] =
                        QuantizeMoney(SalesOfMonth(invoices, b[i].start.year,
                                                   b[i].start.month))
            /\ \A i \in 1..(k - 1) : b[i].end = b[i + 1].start
            /\ \A i \in 1..k : \A j \in (i + 1)..k :
                  ~DateLt(b[j].start, b[i].end)
            /\ \A r \in 1..Len(invoices) :
                  LET d == invoices[r].issue_date
                  IN  IF ~DateLt(d, b[1].start) /\ DateLt(d, b[k].end)
                      THEN Cardinality(WindowsHolding(d)) = 1
                      ELSE WindowsHolding(d) = {}

\* six months back from January 2025: the windows start in August 2024, the
\* December window ends on 1 January 2025 and holds the invoice of
\* 31 December
C30_Witness ==
    /\ month_call.state = "done"
    /\ month_call.reference = Date(2025, 1, 28)
    /\ month_call.months_back = 6
    /\ month_call.month_bounds[1].start = Date(2024, 8, 1)
    /\ month_call.month_bounds[5] =
          [start |-> Date(2024, 12, 1), end |-> Date(2025, 1, 1)]
    /\ month_call.totals[5] = 10000
    /\ month_call.totals[6] = 50010

====
